---- MODULE Spec2Model ----
(***************************************************************************)
(* The 6502 core of crust-6502-emulator (src/src/main.rs): the flat 64 KiB *)
(* bus, the status flags, the 256-entry instruction table, the addressing  *)
(* modes, the operations, clock/reset/irq/nmi.                             *)
(*                                                                         *)
(* The machine state is one record, cpu, whose fields carry the names of   *)
(* the fields of struct cpu6502; the bus' ram is the field ram, kept as a  *)
(* function from the addresses that hold a non-zero byte to that byte      *)
(* (Bus::new zero-fills the array, so an address outside the domain reads  *)
(* 0).  Every handler is an operator from a machine record to a machine    *)
(* record, written statement by statement after the Rust.                  *)
(*                                                                         *)
(* Rust integer arithmetic (+, -, +=, -=) on u8/u16/u32 panics on overflow *)
(* when the crate is built with overflow checks (the dev profile) and      *)
(* wraps when it is built without (the release profile).  The repository   *)
(* fixes no profile, so the build is the variable overflow_checks, chosen  *)
(* in the initial state; a panic is recorded in the field panic with the   *)
(* place of the overflow, and ends the program.                            *)
(***************************************************************************)
EXTENDS Integers, Sequences, FiniteSets, TLC

VARIABLES
    cpu,              \* struct cpu6502, its bus included
    overflow_checks,  \* the build: TRUE = arithmetic overflow panics, FALSE = it wraps
    last,             \* history: the last call of the host and the machine it found
    ins,              \* history: the instruction or signal in progress
    signals,          \* history: how many of reset/irq/nmi the host has called
    scan              \* the call of disassemble: its arguments, locals and map

vars == <<cpu, overflow_checks, last, ins, signals, scan>>

-----------------------------------------------------------------------------
(* Widths and bit operations.                                              *)

W8(v) == v % 256
W16(v) == v % 65536

RECURSIVE BitAnd(_, _)
BitAnd(p, q) ==
    IF p = 0 \/ q = 0 THEN 0
    ELSE (p % 2) * (q % 2) + 2 * BitAnd(p \div 2, q \div 2)

RECURSIVE BitOr(_, _)
BitOr(p, q) ==
    IF p = 0 THEN q
    ELSE IF q = 0 THEN p
    ELSE (IF p % 2 = 1 \/ q % 2 = 1 THEN 1 ELSE 0) + 2 * BitOr(p \div 2, q \div 2)

RECURSIVE BitXor(_, _)
BitXor(p, q) ==
    IF p = 0 THEN q
    ELSE IF q = 0 THEN p
    ELSE (IF p % 2 = q % 2 THEN 0 ELSE 1) + 2 * BitXor(p \div 2, q \div 2)

\* !v on a u8 and on a u16
Not8(v) == 255 - v
Not16(v) == 65535 - v

-----------------------------------------------------------------------------
(* enum FLAGS6502                                                          *)

C == 1
Z == 2
I == 4
D == 8
B == 16
U == 32
V == 64
N == 128

-----------------------------------------------------------------------------
(* The instruction table built by cpu6502::new: entry opcode + 1 is the    *)
(* INSTRUCTION of that opcode (sequences start at 1).                      *)

lookup == <<
    [name |-> "BRK", operate |-> "BRK", addr_mode |-> "IMM", cycles |-> 7],  \* 00
    [name |-> "ORA", operate |-> "ORA", addr_mode |-> "IZX", cycles |-> 6],  \* 01
    [name |-> "???", operate |-> "XXX", addr_mode |-> "IMP", cycles |-> 2],  \* 02
    [name |-> "???", operate |-> "XXX", addr_mode |-> "IMP", cycles |-> 8],  \* 03
    [name |-> "???", operate |-> "NOP", addr_mode |-> "IMP", cycles |-> 3],  \* 04
    [name |-> "ORA", operate |-> "ORA", addr_mode |-> "ZP0", cycles |-> 3],  \* 05
    [name |-> "ASL", operate |-> "ASL", addr_mode |-> "ZP0", cycles |-> 5],  \* 06
    [name |-> "???", operate |-> "XXX", addr_mode |-> "IMP", cycles |-> 5],  \* 07
    [name |-> "PHP", operate |-> "PHP", addr_mode |-> "IMP", cycles |-> 3],  \* 08
    [name |-> "ORA", operate |-> "ORA", addr_mode |-> "IMM", cycles |-> 2],  \* 09
    [name |-> "ASL", operate |-> "ASL", addr_mode |-> "IMP", cycles |-> 2],  \* 0A
    [name |-> "???", operate |-> "XXX", addr_mode |-> "IMP", cycles |-> 2],  \* 0B
    [name |-> "???", operate |-> "NOP", addr_mode |-> "IMP", cycles |-> 4],  \* 0C
    [name |-> "ORA", operate |-> "ORA", addr_mode |-> "ABS", cycles |-> 4],  \* 0D
    [name |-> "ASL", operate |-> "ASL", addr_mode |-> "ABS", cycles |-> 6],  \* 0E
    [name |-> "???", operate |-> "XXX", addr_mode |-> "IMP", cycles |-> 6],  \* 0F
    [name |-> "BPL", operate |-> "BPL", addr_mode |-> "REL", cycles |-> 2],  \* 10
    [name |-> "ORA", operate |-> "ORA", addr_mode |-> "IZY", cycles |-> 5],  \* 11
    [name |-> "???", operate |-> "XXX", addr_mode |-> "IMP", cycles |-> 2],  \* 12
    [name |-> "???", operate |-> "XXX", addr_mode |-> "IMP", cycles |-> 8],  \* 13
    [name |-> "???", operate |-> "NOP", addr_mode |-> "IMP", cycles |-> 4],  \* 14
    [name |-> "ORA", operate |-> "ORA", addr_mode |-> "ZPX", cycles |-> 4],  \* 15
    [name |-> "ASL", operate |-> "ASL", addr_mode |-> "ZPX", cycles |-> 6],  \* 16
    [name |-> "???", operate |-> "XXX", addr_mode |-> "IMP", cycles |-> 6],  \* 17
    [name |-> "CLC", operate |-> "CLC", addr_mode |-> "IMP", cycles |-> 2],  \* 18
    [name |-> "ORA", operate |-> "ORA", addr_mode |-> "ABY", cycles |-> 4],  \* 19
    [name |-> "???", operate |-> "NOP", addr_mode |-> "IMP", cycles |-> 2],  \* 1A
    [name |-> "???", operate |-> "XXX", addr_mode |-> "IMP", cycles |-> 7],  \* 1B
    [name |-> "???", operate |-> "NOP", addr_mode |-> "IMP", cycles |-> 4],  \* 1C
    [name |-> "ORA", operate |-> "ORA", addr_mode |-> "ABX", cycles |-> 4],  \* 1D
    [name |-> "ASL", operate |-> "ASL", addr_mode |-> "ABX", cycles |-> 7],  \* 1E
    [name |-> "???", operate |-> "XXX", addr_mode |-> "IMP", cycles |-> 7],  \* 1F
    [name |-> "JSR", operate |-> "JSR", addr_mode |-> "ABS", cycles |-> 6],  \* 20
    [name |-> "AND", operate |-> "AND", addr_mode |-> "IZX", cycles |-> 6],  \* 21
    [name |-> "???", operate |-> "XXX", addr_mode |-> "IMP", cycles |-> 2],  \* 22
    [name |-> "???", operate |-> "XXX", addr_mode |-> "IMP", cycles |-> 8],  \* 23
    [name |-> "BIT", operate |-> "BIT", addr_mode |-> "ZP0", cycles |-> 3],  \* 24
    [name |-> "AND", operate |-> "AND", addr_mode |-> "ZP0", cycles |-> 3],  \* 25
    [name |-> "ROL", operate |-> "ROL", addr_mode |-> "ZP0", cycles |-> 5],  \* 26
    [name |-> "???", operate |-> "XXX", addr_mode |-> "IMP", cycles |-> 5],  \* 27
    [name |-> "PLP", operate |-> "PLP", addr_mode |-> "IMP", cycles |-> 4],  \* 28
    [name |-> "AND", operate |-> "AND", addr_mode |-> "IMM", cycles |-> 2],  \* 29
    [name |-> "ROL", operate |-> "ROL", addr_mode |-> "IMP", cycles |-> 2],  \* 2A
    [name |-> "???", operate |-> "XXX", addr_mode |-> "IMP", cycles |-> 2],  \* 2B
    [name |-> "BIT", operate |-> "BIT", addr_mode |-> "ABS", cycles |-> 4],  \* 2C
    [name |-> "AND", operate |-> "AND", addr_mode |-> "ABS", cycles |-> 4],  \* 2D
    [name |-> "ROL", operate |-> "ROL", addr_mode |-> "ABS", cycles |-> 6],  \* 2E
    [name |-> "???", operate |-> "XXX", addr_mode |-> "IMP", cycles |-> 6],  \* 2F
    [name |-> "BMI", operate |-> "BMI", addr_mode |-> "REL", cycles |-> 2],  \* 30
    [name |-> "AND", operate |-> "AND", addr_mode |-> "IZY", cycles |-> 5],  \* 31
    [name |-> "???", operate |-> "XXX", addr_mode |-> "IMP", cycles |-> 2],  \* 32
    [name |-> "???", operate |-> "XXX", addr_mode |-> "IMP", cycles |-> 8],  \* 33
    [name |-> "???", operate |-> "NOP", addr_mode |-> "IMP", cycles |-> 4],  \* 34
    [name |-> "AND", operate |-> "AND", addr_mode |-> "ZPX", cycles |-> 4],  \* 35
    [name |-> "ROL", operate |-> "ROL", addr_mode |-> "ZPX", cycles |-> 6],  \* 36
    [name |-> "???", operate |-> "XXX", addr_mode |-> "IMP", cycles |-> 6],  \* 37
    [name |-> "SEC", operate |-> "SEC", addr_mode |-> "IMP", cycles |-> 2],  \* 38
    [name |-> "AND", operate |-> "AND", addr_mode |-> "ABY", cycles |-> 4],  \* 39
    [name |-> "???", operate |-> "NOP", addr_mode |-> "IMP", cycles |-> 2],  \* 3A
    [name |-> "???", operate |-> "XXX", addr_mode |-> "IMP", cycles |-> 7],  \* 3B
    [name |-> "???", operate |-> "NOP", addr_mode |-> "IMP", cycles |-> 4],  \* 3C
    [name |-> "AND", operate |-> "AND", addr_mode |-> "ABX", cycles |-> 4],  \* 3D
    [name |-> "ROL", operate |-> "ROL", addr_mode |-> "ABX", cycles |-> 7],  \* 3E
    [name |-> "???", operate |-> "XXX", addr_mode |-> "IMP", cycles |-> 7],  \* 3F
    [name |-> "RTI", operate |-> "RTI", addr_mode |-> "IMP", cycles |-> 6],  \* 40
    [name |-> "EOR", operate |-> "EOR", addr_mode |-> "IZX", cycles |-> 6],  \* 41
    [name |-> "???", operate |-> "XXX", addr_mode |-> "IMP", cycles |-> 2],  \* 42
    [name |-> "???", operate |-> "XXX", addr_mode |-> "IMP", cycles |-> 8],  \* 43
    [name |-> "???", operate |-> "NOP", addr_mode |-> "IMP", cycles |-> 3],  \* 44
    [name |-> "EOR", operate |-> "EOR", addr_mode |-> "ZP0", cycles |-> 3],  \* 45
    [name |-> "LSR", operate |-> "LSR", addr_mode |-> "ZP0", cycles |-> 5],  \* 46
    [name |-> "???", operate |-> "XXX", addr_mode |-> "IMP", cycles |-> 5],  \* 47
    [name |-> "PHA", operate |-> "PHA", addr_mode |-> "IMP", cycles |-> 3],  \* 48
    [name |-> "EOR", operate |-> "EOR", addr_mode |-> "IMM", cycles |-> 2],  \* 49
    [name |-> "LSR", operate |-> "LSR", addr_mode |-> "IMP", cycles |-> 2],  \* 4A
    [name |-> "???", operate |-> "XXX", addr_mode |-> "IMP", cycles |-> 2],  \* 4B
    [name |-> "JMP", operate |-> "JMP", addr_mode |-> "ABS", cycles |-> 3],  \* 4C
    [name |-> "EOR", operate |-> "EOR", addr_mode |-> "ABS", cycles |-> 4],  \* 4D
    [name |-> "LSR", operate |-> "LSR", addr_mode |-> "ABS", cycles |-> 6],  \* 4E
    [name |-> "???", operate |-> "XXX", addr_mode |-> "IMP", cycles |-> 6],  \* 4F
    [name |-> "BVC", operate |-> "BVC", addr_mode |-> "REL", cycles |-> 2],  \* 50
    [name |-> "EOR", operate |-> "EOR", addr_mode |-> "IZY", cycles |-> 5],  \* 51
    [name |-> "???", operate |-> "XXX", addr_mode |-> "IMP", cycles |-> 2],  \* 52
    [name |-> "???", operate |-> "XXX", addr_mode |-> "IMP", cycles |-> 8],  \* 53
    [name |-> "???", operate |-> "NOP", addr_mode |-> "IMP", cycles |-> 4],  \* 54
    [name |-> "EOR", operate |-> "EOR", addr_mode |-> "ZPX", cycles |-> 4],  \* 55
    [name |-> "LSR", operate |-> "LSR", addr_mode |-> "ZPX", cycles |-> 6],  \* 56
    [name |-> "???", operate |-> "XXX", addr_mode |-> "IMP", cycles |-> 6],  \* 57
    [name |-> "CLI", operate |-> "CLI", addr_mode |-> "IMP", cycles |-> 2],  \* 58
    [name |-> "EOR", operate |-> "EOR", addr_mode |-> "ABY", cycles |-> 4],  \* 59
    [name |-> "???", operate |-> "NOP", addr_mode |-> "IMP", cycles |-> 2],  \* 5A
    [name |-> "???", operate |-> "XXX", addr_mode |-> "IMP", cycles |-> 7],  \* 5B
    [name |-> "???", operate |-> "NOP", addr_mode |-> "IMP", cycles |-> 4],  \* 5C
    [name |-> "EOR", operate |-> "EOR", addr_mode |-> "ABX", cycles |-> 4],  \* 5D
    [name |-> "LSR", operate |-> "LSR", addr_mode |-> "ABX", cycles |-> 7],  \* 5E
    [name |-> "???", operate |-> "XXX", addr_mode |-> "IMP", cycles |-> 7],  \* 5F
    [name |-> "RTS", operate |-> "RTS", addr_mode |-> "IMP", cycles |-> 6],  \* 60
    [name |-> "ADC", operate |-> "ADC", addr_mode |-> "IZX", cycles |-> 6],  \* 61
    [name |-> "???", operate |-> "XXX", addr_mode |-> "IMP", cycles |-> 2],  \* 62
    [name |-> "???", operate |-> "XXX", addr_mode |-> "IMP", cycles |-> 8],  \* 63
    [name |-> "???", operate |-> "NOP", addr_mode |-> "IMP", cycles |-> 3],  \* 64
    [name |-> "ADC", operate |-> "ADC", addr_mode |-> "ZP0", cycles |-> 3],  \* 65
    [name |-> "ROR", operate |-> "ROR", addr_mode |-> "ZP0", cycles |-> 5],  \* 66
    [name |-> "???", operate |-> "XXX", addr_mode |-> "IMP", cycles |-> 5],  \* 67
    [name |-> "PLA", operate |-> "PLA", addr_mode |-> "IMP", cycles |-> 4],  \* 68
    [name |-> "ADC", operate |-> "ADC", addr_mode |-> "IMM", cycles |-> 2],  \* 69
    [name |-> "ROR", operate |-> "ROR", addr_mode |-> "IMP", cycles |-> 2],  \* 6A
    [name |-> "???", operate |-> "XXX", addr_mode |-> "IMP", cycles |-> 2],  \* 6B
    [name |-> "JMP", operate |-> "JMP", addr_mode |-> "IND", cycles |-> 5],  \* 6C
    [name |-> "ADC", operate |-> "ADC", addr_mode |-> "ABS", cycles |-> 4],  \* 6D
    [name |-> "ROR", operate |-> "ROR", addr_mode |-> "ABS", cycles |-> 6],  \* 6E
    [name |-> "???", operate |-> "XXX", addr_mode |-> "IMP", cycles |-> 6],  \* 6F
    [name |-> "BVS", operate |-> "BVS", addr_mode |-> "REL", cycles |-> 2],  \* 70
    [name |-> "ADC", operate |-> "ADC", addr_mode |-> "IZY", cycles |-> 5],  \* 71
    [name |-> "???", operate |-> "XXX", addr_mode |-> "IMP", cycles |-> 2],  \* 72
    [name |-> "???", operate |-> "XXX", addr_mode |-> "IMP", cycles |-> 8],  \* 73
    [name |-> "???", operate |-> "NOP", addr_mode |-> "IMP", cycles |-> 4],  \* 74
    [name |-> "ADC", operate |-> "ADC", addr_mode |-> "ZPX", cycles |-> 4],  \* 75
    [name |-> "ROR", operate |-> "ROR", addr_mode |-> "ZPX", cycles |-> 6],  \* 76
    [name |-> "???", operate |-> "XXX", addr_mode |-> "IMP", cycles |-> 6],  \* 77
    [name |-> "SEI", operate |-> "SEI", addr_mode |-> "IMP", cycles |-> 2],  \* 78
    [name |-> "ADC", operate |-> "ADC", addr_mode |-> "ABY", cycles |-> 4],  \* 79
    [name |-> "???", operate |-> "NOP", addr_mode |-> "IMP", cycles |-> 2],  \* 7A
    [name |-> "???", operate |-> "XXX", addr_mode |-> "IMP", cycles |-> 7],  \* 7B
    [name |-> "???", operate |-> "NOP", addr_mode |-> "IMP", cycles |-> 4],  \* 7C
    [name |-> "ADC", operate |-> "ADC", addr_mode |-> "ABX", cycles |-> 4],  \* 7D
    [name |-> "ROR", operate |-> "ROR", addr_mode |-> "ABX", cycles |-> 7],  \* 7E
    [name |-> "???", operate |-> "XXX", addr_mode |-> "IMP", cycles |-> 7],  \* 7F
    [name |-> "???", operate |-> "NOP", addr_mode |-> "IMP", cycles |-> 2],  \* 80
    [name |-> "STA", operate |-> "STA", addr_mode |-> "IZX", cycles |-> 6],  \* 81
    [name |-> "???", operate |-> "NOP", addr_mode |-> "IMP", cycles |-> 2],  \* 82
    [name |-> "???", operate |-> "XXX", addr_mode |-> "IMP", cycles |-> 6],  \* 83
    [name |-> "STY", operate |-> "STY", addr_mode |-> "ZP0", cycles |-> 3],  \* 84
    [name |-> "STA", operate |-> "STA", addr_mode |-> "ZP0", cycles |-> 3],  \* 85
    [name |-> "STX", operate |-> "STX", addr_mode |-> "ZP0", cycles |-> 3],  \* 86
    [name |-> "???", operate |-> "XXX", addr_mode |-> "IMP", cycles |-> 3],  \* 87
    [name |-> "DEY", operate |-> "DEY", addr_mode |-> "IMP", cycles |-> 2],  \* 88
    [name |-> "???", operate |-> "NOP", addr_mode |-> "IMP", cycles |-> 2],  \* 89
    [name |-> "TXA", operate |-> "TXA", addr_mode |-> "IMP", cycles |-> 2],  \* 8A
    [name |-> "???", operate |-> "XXX", addr_mode |-> "IMP", cycles |-> 2],  \* 8B
    [name |-> "STY", operate |-> "STY", addr_mode |-> "ABS", cycles |-> 4],  \* 8C
    [name |-> "STA", operate |-> "STA", addr_mode |-> "ABS", cycles |-> 4],  \* 8D
    [name |-> "STX", operate |-> "STX", addr_mode |-> "ABS", cycles |-> 4],  \* 8E
    [name |-> "???", operate |-> "XXX", addr_mode |-> "IMP", cycles |-> 4],  \* 8F
    [name |-> "BCC", operate |-> "BCC", addr_mode |-> "REL", cycles |-> 2],  \* 90
    [name |-> "STA", operate |-> "STA", addr_mode |-> "IZY", cycles |-> 6],  \* 91
    [name |-> "???", operate |-> "XXX", addr_mode |-> "IMP", cycles |-> 2],  \* 92
    [name |-> "???", operate |-> "XXX", addr_mode |-> "IMP", cycles |-> 6],  \* 93
    [name |-> "STY", operate |-> "STY", addr_mode |-> "ZPX", cycles |-> 4],  \* 94
    [name |-> "STA", operate |-> "STA", addr_mode |-> "ZPX", cycles |-> 4],  \* 95
    [name |-> "STX", operate |-> "STX", addr_mode |-> "ZPY", cycles |-> 4],  \* 96
    [name |-> "???", operate |-> "XXX", addr_mode |-> "IMP", cycles |-> 4],  \* 97
    [name |-> "TYA", operate |-> "TYA", addr_mode |-> "IMP", cycles |-> 2],  \* 98
    [name |-> "STA", operate |-> "STA", addr_mode |-> "ABY", cycles |-> 5],  \* 99
    [name |-> "TXS", operate |-> "TXS", addr_mode |-> "IMP", cycles |-> 2],  \* 9A
    [name |-> "???", operate |-> "XXX", addr_mode |-> "IMP", cycles |-> 5],  \* 9B
    [name |-> "???", operate |-> "NOP", addr_mode |-> "IMP", cycles |-> 5],  \* 9C
    [name |-> "STA", operate |-> "STA", addr_mode |-> "ABX", cycles |-> 5],  \* 9D
    [name |-> "???", operate |-> "XXX", addr_mode |-> "IMP", cycles |-> 5],  \* 9E
    [name |-> "???", operate |-> "XXX", addr_mode |-> "IMP", cycles |-> 5],  \* 9F
    [name |-> "LDY", operate |-> "LDY", addr_mode |-> "IMM", cycles |-> 2],  \* A0
    [name |-> "LDA", operate |-> "LDA", addr_mode |-> "IZX", cycles |-> 6],  \* A1
    [name |-> "LDX", operate |-> "LDX", addr_mode |-> "IMM", cycles |-> 2],  \* A2
    [name |-> "???", operate |-> "XXX", addr_mode |-> "IMP", cycles |-> 6],  \* A3
    [name |-> "LDY", operate |-> "LDY", addr_mode |-> "ZP0", cycles |-> 3],  \* A4
    [name |-> "LDA", operate |-> "LDA", addr_mode |-> "ZP0", cycles |-> 3],  \* A5
    [name |-> "LDX", operate |-> "LDX", addr_mode |-> "ZP0", cycles |-> 3],  \* A6
    [name |-> "???", operate |-> "XXX", addr_mode |-> "IMP", cycles |-> 3],  \* A7
    [name |-> "TAY", operate |-> "TAY", addr_mode |-> "IMP", cycles |-> 2],  \* A8
    [name |-> "LDA", operate |-> "LDA", addr_mode |-> "IMM", cycles |-> 2],  \* A9
    [name |-> "TAX", operate |-> "TAX", addr_mode |-> "IMP", cycles |-> 2],  \* AA
    [name |-> "???", operate |-> "XXX", addr_mode |-> "IMP", cycles |-> 2],  \* AB
    [name |-> "LDY", operate |-> "LDY", addr_mode |-> "ABS", cycles |-> 4],  \* AC
    [name |-> "LDA", operate |-> "LDA", addr_mode |-> "ABS", cycles |-> 4],  \* AD
    [name |-> "LDX", operate |-> "LDX", addr_mode |-> "ABS", cycles |-> 4],  \* AE
    [name |-> "???", operate |-> "XXX", addr_mode |-> "IMP", cycles |-> 4],  \* AF
    [name |-> "BCS", operate |-> "BCS", addr_mode |-> "REL", cycles |-> 2],  \* B0
    [name |-> "LDA", operate |-> "LDA", addr_mode |-> "IZY", cycles |-> 5],  \* B1
    [name |-> "???", operate |-> "XXX", addr_mode |-> "IMP", cycles |-> 2],  \* B2
    [name |-> "???", operate |-> "XXX", addr_mode |-> "IMP", cycles |-> 5],  \* B3
    [name |-> "LDY", operate |-> "LDY", addr_mode |-> "ZPX", cycles |-> 4],  \* B4
    [name |-> "LDA", operate |-> "LDA", addr_mode |-> "ZPX", cycles |-> 4],  \* B5
    [name |-> "LDX", operate |-> "LDX", addr_mode |-> "ZPY", cycles |-> 4],  \* B6
    [name |-> "???", operate |-> "XXX", addr_mode |-> "IMP", cycles |-> 4],  \* B7
    [name |-> "CLV", operate |-> "CLV", addr_mode |-> "IMP", cycles |-> 2],  \* B8
    [name |-> "LDA", operate |-> "LDA", addr_mode |-> "ABY", cycles |-> 4],  \* B9
    [name |-> "TSX", operate |-> "TSX", addr_mode |-> "IMP", cycles |-> 2],  \* BA
    [name |-> "???", operate |-> "XXX", addr_mode |-> "IMP", cycles |-> 4],  \* BB
    [name |-> "LDY", operate |-> "LDY", addr_mode |-> "ABX", cycles |-> 4],  \* BC
    [name |-> "LDA", operate |-> "LDA", addr_mode |-> "ABX", cycles |-> 4],  \* BD
    [name |-> "LDX", operate |-> "LDX", addr_mode |-> "ABY", cycles |-> 4],  \* BE
    [name |-> "???", operate |-> "XXX", addr_mode |-> "IMP", cycles |-> 4],  \* BF
    [name |-> "CPY", operate |-> "CPY", addr_mode |-> "IMM", cycles |-> 2],  \* C0
    [name |-> "CMP", operate |-> "CMP", addr_mode |-> "IZX", cycles |-> 6],  \* C1
    [name |-> "???", operate |-> "NOP", addr_mode |-> "IMP", cycles |-> 2],  \* C2
    [name |-> "???", operate |-> "XXX", addr_mode |-> "IMP", cycles |-> 8],  \* C3
    [name |-> "CPY", operate |-> "CPY", addr_mode |-> "ZP0", cycles |-> 3],  \* C4
    [name |-> "CMP", operate |-> "CMP", addr_mode |-> "ZP0", cycles |-> 3],  \* C5
    [name |-> "DEC", operate |-> "DEC", addr_mode |-> "ZP0", cycles |-> 5],  \* C6
    [name |-> "???", operate |-> "XXX", addr_mode |-> "IMP", cycles |-> 5],  \* C7
    [name |-> "INY", operate |-> "INY", addr_mode |-> "IMP", cycles |-> 2],  \* C8
    [name |-> "CMP", operate |-> "CMP", addr_mode |-> "IMM", cycles |-> 2],  \* C9
    [name |-> "DEX", operate |-> "DEX", addr_mode |-> "IMP", cycles |-> 2],  \* CA
    [name |-> "???", operate |-> "XXX", addr_mode |-> "IMP", cycles |-> 2],  \* CB
    [name |-> "CPY", operate |-> "CPY", addr_mode |-> "ABS", cycles |-> 4],  \* CC
    [name |-> "CMP", operate |-> "CMP", addr_mode |-> "ABS", cycles |-> 4],  \* CD
    [name |-> "DEC", operate |-> "DEC", addr_mode |-> "ABS", cycles |-> 6],  \* CE
    [name |-> "???", operate |-> "XXX", addr_mode |-> "IMP", cycles |-> 6],  \* CF
    [name |-> "BNE", operate |-> "BNE", addr_mode |-> "REL", cycles |-> 2],  \* D0
    [name |-> "CMP", operate |-> "CMP", addr_mode |-> "IZY", cycles |-> 5],  \* D1
    [name |-> "???", operate |-> "XXX", addr_mode |-> "IMP", cycles |-> 2],  \* D2
    [name |-> "???", operate |-> "XXX", addr_mode |-> "IMP", cycles |-> 8],  \* D3
    [name |-> "???", operate |-> "NOP", addr_mode |-> "IMP", cycles |-> 4],  \* D4
    [name |-> "CMP", operate |-> "CMP", addr_mode |-> "ZPX", cycles |-> 4],  \* D5
    [name |-> "DEC", operate |-> "DEC", addr_mode |-> "ZPX", cycles |-> 6],  \* D6
    [name |-> "???", operate |-> "XXX", addr_mode |-> "IMP", cycles |-> 6],  \* D7
    [name |-> "CLD", operate |-> "CLD", addr_mode |-> "IMP", cycles |-> 2],  \* D8
    [name |-> "CMP", operate |-> "CMP", addr_mode |-> "ABY", cycles |-> 4],  \* D9
    [name |-> "NOP", operate |-> "NOP", addr_mode |-> "IMP", cycles |-> 2],  \* DA
    [name |-> "???", operate |-> "XXX", addr_mode |-> "IMP", cycles |-> 7],  \* DB
    [name |-> "???", operate |-> "NOP", addr_mode |-> "IMP", cycles |-> 4],  \* DC
    [name |-> "CMP", operate |-> "CMP", addr_mode |-> "ABX", cycles |-> 4],  \* DD
    [name |-> "DEC", operate |-> "DEC", addr_mode |-> "ABX", cycles |-> 7],  \* DE
    [name |-> "???", operate |-> "XXX", addr_mode |-> "IMP", cycles |-> 7],  \* DF
    [name |-> "CPX", operate |-> "CPX", addr_mode |-> "IMM", cycles |-> 2],  \* E0
    [name |-> "SBC", operate |-> "SBC", addr_mode |-> "IZX", cycles |-> 6],  \* E1
    [name |-> "???", operate |-> "NOP", addr_mode |-> "IMP", cycles |-> 2],  \* E2
    [name |-> "???", operate |-> "XXX", addr_mode |-> "IMP", cycles |-> 8],  \* E3
    [name |-> "CPX", operate |-> "CPX", addr_mode |-> "ZP0", cycles |-> 3],  \* E4
    [name |-> "SBC", operate |-> "SBC", addr_mode |-> "ZP0", cycles |-> 3],  \* E5
    [name |-> "INC", operate |-> "INC", addr_mode |-> "ZP0", cycles |-> 5],  \* E6
    [name |-> "???", operate |-> "XXX", addr_mode |-> "IMP", cycles |-> 5],  \* E7
    [name |-> "INX", operate |-> "INX", addr_mode |-> "IMP", cycles |-> 2],  \* E8
    [name |-> "SBC", operate |-> "SBC", addr_mode |-> "IMM", cycles |-> 2],  \* E9
    [name |-> "NOP", operate |-> "NOP", addr_mode |-> "IMP", cycles |-> 2],  \* EA
    [name |-> "???", operate |-> "SBC", addr_mode |-> "IMP", cycles |-> 2],  \* EB
    [name |-> "CPX", operate |-> "CPX", addr_mode |-> "ABS", cycles |-> 4],  \* EC
    [name |-> "SBC", operate |-> "SBC", addr_mode |-> "ABS", cycles |-> 4],  \* ED
    [name |-> "INC", operate |-> "INC", addr_mode |-> "ABS", cycles |-> 6],  \* EE
    [name |-> "???", operate |-> "XXX", addr_mode |-> "IMP", cycles |-> 6],  \* EF
    [name |-> "BEQ", operate |-> "BEQ", addr_mode |-> "REL", cycles |-> 2],  \* F0
    [name |-> "SBC", operate |-> "SBC", addr_mode |-> "IZY", cycles |-> 5],  \* F1
    [name |-> "???", operate |-> "XXX", addr_mode |-> "IMP", cycles |-> 2],  \* F2
    [name |-> "???", operate |-> "XXX", addr_mode |-> "IMP", cycles |-> 8],  \* F3
    [name |-> "???", operate |-> "NOP", addr_mode |-> "IMP", cycles |-> 4],  \* F4
    [name |-> "SBC", operate |-> "SBC", addr_mode |-> "ZPX", cycles |-> 4],  \* F5
    [name |-> "INC", operate |-> "INC", addr_mode |-> "ZPX", cycles |-> 6],  \* F6
    [name |-> "???", operate |-> "XXX", addr_mode |-> "IMP", cycles |-> 6],  \* F7
    [name |-> "SED", operate |-> "SED", addr_mode |-> "IMP", cycles |-> 2],  \* F8
    [name |-> "SBC", operate |-> "SBC", addr_mode |-> "ABY", cycles |-> 4],  \* F9
    [name |-> "NOP", operate |-> "NOP", addr_mode |-> "IMP", cycles |-> 2],  \* FA
    [name |-> "???", operate |-> "XXX", addr_mode |-> "IMP", cycles |-> 7],  \* FB
    [name |-> "???", operate |-> "NOP", addr_mode |-> "IMP", cycles |-> 4],  \* FC
    [name |-> "SBC", operate |-> "SBC", addr_mode |-> "ABX", cycles |-> 4],  \* FD
    [name |-> "INC", operate |-> "INC", addr_mode |-> "ABX", cycles |-> 7],  \* FE
    [name |-> "???", operate |-> "XXX", addr_mode |-> "IMP", cycles |-> 7]  \* FF
>>

-----------------------------------------------------------------------------
(* Overflow.  Trap(m, raw, lim, site): the mathematical result raw of an   *)
(* operation on an unsigned type of lim values; out of range it panics in  *)
(* a build with overflow checks (the first panic is the one that ends the  *)
(* program) and is wrapped by the caller otherwise.                        *)

Trap(m, raw, lim, site) ==
    IF overflow_checks /\ (raw < 0 \/ raw >= lim) /\ m.panic = "none"
    THEN [m EXCEPT !.panic = site]
    ELSE m

-----------------------------------------------------------------------------
(* Bus                                                                     *)

\* Bus::new and the Self { .. } of cpu6502::new, the host's image in ram
NewCpu(image) ==
    [a |-> 0, x |-> 0, y |-> 0, stkp |-> 0, pc |-> 0, status |-> 0,
     fetched |-> 0, addr_abs |-> 0, addr_rel |-> 0, opcode |-> 0, cycles |-> 0,
     clock_count |-> 0, temp |-> 0, ram |-> image, panic |-> "none"]

\* Bus::read
BusRead(ram, addr) ==
    IF addr >= 0 /\ addr <= 65535
    THEN (IF addr \in DOMAIN ram THEN ram[addr] ELSE 0)
    ELSE 0

\* Bus::write (a zero byte is stored by leaving the address out of the domain)
BusWrite(ram, addr, data) ==
    IF addr >= 0 /\ addr <= 65535
    THEN [k \in (IF data = 0 THEN DOMAIN ram \ {addr} ELSE DOMAIN ram \cup {addr}) |->
             IF k = addr THEN data ELSE ram[k]]
    ELSE ram

\* cpu6502::read, cpu6502::write
read(m, address) == BusRead(m.ram, address)
write(m, address, value) == [m EXCEPT !.ram = BusWrite(m.ram, address, value)]

-----------------------------------------------------------------------------
(* Flags                                                                   *)

get_flag(m, f) == IF BitAnd(m.status, f) > 0 THEN 1 ELSE 0

set_flag(m, f, v) ==
    IF v THEN [m EXCEPT !.status = BitOr(m.status, f)]
    ELSE [m EXCEPT !.status = BitAnd(m.status, Not8(f))]

-----------------------------------------------------------------------------
(* Addressing modes.  Each yields <<machine, return value>>.  A function   *)
(* of the source is the composition of its statements, each statement an   *)
(* operator on the machine n that the statement finds.                     *)

\* cpu.pc += 1
IncPc(m, site) == [Trap(m, m.pc + 1, 65536, site) EXCEPT !.pc = W16(m.pc + 1)]

IMP(m) == <<[m EXCEPT !.fetched = m.a], 0>>

IMM(m) ==
    LET s2(n) == [n EXCEPT !.addr_abs = n.pc]
    IN  <<s2(IncPc(m, "IMM: pc += 1")), 0>>

\* the tail of ZP0, ZPX, ZPY: pc += 1; addr_abs &= 0x00FF
ZpTail(m, site) ==
    LET s2(n) == [n EXCEPT !.addr_abs = BitAnd(n.addr_abs, 255)]
    IN  s2(IncPc(m, site))

ZP0(m) ==
    LET s1(n) == [n EXCEPT !.addr_abs = read(n, n.pc)]
    IN  <<ZpTail(s1(m), "ZP0: pc += 1"), 0>>

\* read(pc) + x is a u8 addition, widened afterwards
ZPX(m) ==
    LET s1(n) == [Trap(n, read(n, n.pc) + n.x, 256, "ZPX: read(pc) + x")
                     EXCEPT !.addr_abs = W8(read(n, n.pc) + n.x)]
    IN  <<ZpTail(s1(m), "ZPX: pc += 1"), 0>>

ZPY(m) ==
    LET s1(n) == [Trap(n, read(n, n.pc) + n.y, 256, "ZPY: read(pc) + y")
                     EXCEPT !.addr_abs = W8(read(n, n.pc) + n.y)]
    IN  <<ZpTail(s1(m), "ZPY: pc += 1"), 0>>

REL(m) ==
    LET s1(n) == [n EXCEPT !.addr_rel = read(n, n.pc)]
        s3(n) == IF BitAnd(n.addr_rel, 128) # 0
                 THEN [n EXCEPT !.addr_rel = BitOr(n.addr_rel, 65280)]
                 ELSE n
    IN  <<s3(IncPc(s1(m), "REL: pc += 1")), 0>>

\* the two operand bytes of ABS, ABX, ABY, IND: lo = read(pc); pc += 1;
\* hi = read(pc); pc += 1
OperandLo(m) == read(m, m.pc)
OperandHi(m, site) == LET hi(n) == read(n, n.pc) IN hi(IncPc(m, site))
Skip2(m, site) == IncPc(IncPc(m, site), site)

ABS(m) ==
    LET s5(n, lo, hi) == [n EXCEPT !.addr_abs = BitOr(hi * 256, lo)]
    IN  <<s5(Skip2(m, "ABS: pc += 1"), OperandLo(m), OperandHi(m, "ABS: pc += 1")), 0>>

\* ABX and ABY that never ask for the extra cycle
AbsIndexedSamePage(m, idx, site, sitepc) ==
    LET s5(n, lo, hi) == [n EXCEPT !.addr_abs = BitOr(hi * 256, lo)]
        s6(n) == [Trap(n, n.addr_abs + idx, 65536, site)
                     EXCEPT !.addr_abs = W16(n.addr_abs + idx)]
    IN  <<s6(s5(Skip2(m, sitepc), OperandLo(m), OperandHi(m, sitepc))), 0>>

\* ABX and ABY with idx the index register
AbsIndexed(m, idx, site, sitepc) ==
    LET s5(n, lo, hi) == [n EXCEPT !.addr_abs = BitOr(hi * 256, lo)]
        s6(n) == [Trap(n, n.addr_abs + idx, 65536, site)
                     EXCEPT !.addr_abs = W16(n.addr_abs + idx)]
        s7(n, hi) == <<n, IF BitAnd(n.addr_abs, 65280) # hi * 256 THEN 1 ELSE 0>>
    IN  s7(s6(s5(Skip2(m, sitepc), OperandLo(m), OperandHi(m, sitepc))),
           OperandHi(m, sitepc))

ABX(m) == AbsIndexed(m, m.x, "ABX: addr_abs += x", "ABX: pc += 1")
ABY(m) == AbsIndexed(m, m.y, "ABY: addr_abs += y", "ABY: pc += 1")

\* with ptr_lo = 0xFF the high byte is read from ptr & 0x00FF
IND(m) ==
    LET s5(n, ptr_lo, ptr) ==
            IF ptr_lo = 255
            THEN [n EXCEPT !.addr_abs =
                     BitOr(read(n, BitAnd(ptr, 255)) * 256, read(n, ptr + 0))]
            ELSE [Trap(n, ptr + 1, 65536, "IND: ptr + 1") EXCEPT !.addr_abs =
                     BitOr(read(n, W16(ptr + 1)) * 256, read(n, ptr + 0))]
    IN  <<s5(Skip2(m, "IND: pc += 1"), OperandLo(m),
             BitOr(OperandHi(m, "IND: pc += 1") * 256, OperandLo(m))), 0>>

IZX(m) ==
    LET s3(n, t) ==
            [n EXCEPT !.addr_abs =
                BitOr(read(n, BitAnd(t + (n.x + 1), 255)) * 256,
                      read(n, BitAnd(t + n.x, 255)))]
    IN  <<s3(IncPc(m, "IZX: pc += 1"), read(m, m.pc)), 0>>

IZY(m) ==
    LET lo(n, t) == read(n, BitAnd(t, 255))
        hi(n, t) == read(n, BitAnd(t + 1, 255))
        s3(n, t) == [n EXCEPT !.addr_abs = BitOr(hi(n, t) * 256, lo(n, t))]
        s4(n) == [Trap(n, n.addr_abs + n.y, 65536, "IZY: addr_abs += y")
                     EXCEPT !.addr_abs = W16(n.addr_abs + n.y)]
        s5(n, t) == <<n, IF BitAnd(n.addr_abs, 65280) # hi(n, t) * 256 THEN 1 ELSE 0>>
    IN  s5(s4(s3(IncPc(m, "IZY: pc += 1"), read(m, m.pc))), read(m, m.pc))

-----------------------------------------------------------------------------
(* Operations.  Each yields <<machine, return value>>.                     *)

IsIMP(m) == lookup[m.opcode + 1].addr_mode = "IMP"

\* cpu6502::fetch: the operand is read at addr_abs - 1
fetch(m) ==
    IF ~IsIMP(m)
    THEN [Trap(m, m.addr_abs - 1, 65536, "fetch: addr_abs - 1")
             EXCEPT !.fetched = read(m, W16(m.addr_abs - 1))]
    ELSE m

\* cpu.stkp -= 1 and cpu.stkp += 1
DecSp(m, site) == [Trap(m, m.stkp - 1, 256, site) EXCEPT !.stkp = W8(m.stkp - 1)]
IncSp(m, site) == [Trap(m, m.stkp + 1, 256, site) EXCEPT !.stkp = W8(m.stkp + 1)]

\* a flag update that leaves N as it was
SetZOnly(m, r) == set_flag(m, Z, r = 0)

\* Z and N of a register value: set_flag(Z, r == 0); set_flag(N, r & 0x80 != 0)
SetZN(m, r) == set_flag(set_flag(m, Z, r = 0), N, BitAnd(r, 128) # 0)

\* Z and N of temp: set_flag(Z, (temp & 0x00FF) == 0); set_flag(N, temp & 0x80 != 0)
SetZNTemp(m) ==
    set_flag(set_flag(m, Z, BitAnd(m.temp, 255) = 0), N, BitAnd(m.temp, 128) # 0)

\* an ADC that adjusts the low digit when D is set, as decimal mode would
AdcDecimal(m) ==
    LET low(n) == (n.a % 16) + (n.fetched % 16) + get_flag(n, C)
        s2(n) == [n EXCEPT !.temp = n.a + n.fetched + get_flag(n, C)
                               + (IF get_flag(n, D) = 1 /\ low(n) > 9 THEN 6 ELSE 0)]
        s3(n) == set_flag(n, C, n.temp > 255)
        s4(n) == set_flag(n, Z, BitAnd(n.temp, 255) = 0)
        s5(n) == set_flag(n, V,
                     BitAnd(BitAnd(Not16(BitXor(n.a, n.fetched)), BitXor(n.a, n.temp)),
                            128) # 0)
        s6(n) == set_flag(n, N, BitAnd(n.temp, 128) # 0)
        s7(n) == [n EXCEPT !.a = BitAnd(n.temp, 255)]
    IN  <<s7(s6(s5(s4(s3(s2(fetch(m))))))), 1>>

\* an ADC that ignores the carry in
AdcWithoutCarryIn(m) ==
    LET s2(n) == [n EXCEPT !.temp = n.a + n.fetched]
        s3(n) == set_flag(n, C, n.temp > 255)
        s6(n) == SetZNTemp(n)
        s7(n) == [n EXCEPT !.a = BitAnd(n.temp, 255)]
    IN  <<s7(s6(s3(s2(fetch(m))))), 1>>

ADC(m) ==
    LET s2(n) == [n EXCEPT !.temp = n.a + n.fetched + get_flag(n, C)]
        s3(n) == set_flag(n, C, n.temp > 255)
        s4(n) == set_flag(n, Z, BitAnd(n.temp, 255) = 0)
        s5(n) == set_flag(n, V,
                     BitAnd(BitAnd(Not16(BitXor(n.a, n.fetched)), BitXor(n.a, n.temp)),
                            128) # 0)
        s6(n) == set_flag(n, N, BitAnd(n.temp, 128) # 0)
        s7(n) == [n EXCEPT !.a = BitAnd(n.temp, 255)]
    IN  <<s7(s6(s5(s4(s3(s2(fetch(m))))))), 1>>

AND(m) ==
    LET s2(n) == [n EXCEPT !.a = BitAnd(n.a, n.fetched)]
        s3(n) == SetZN(n, n.a)
    IN  <<s3(s2(fetch(m))), 1>>

\* the tail of ASL, LSR, ROL, ROR: the result goes to A or to memory
StoreShift(m) ==
    IF IsIMP(m)
    THEN [m EXCEPT !.a = BitAnd(m.temp, 255)]
    ELSE write(m, m.addr_abs, BitAnd(m.temp, 255))

ASL(m) ==
    LET s2(n) == [n EXCEPT !.temp = n.fetched * 2]
        s3(n) == set_flag(n, C, BitAnd(n.temp, 65280) > 0)
    IN  <<StoreShift(SetZNTemp(s3(s2(fetch(m))))), 0>>

\* cpu.cycles += 1
IncCycles(m) ==
    [Trap(m, m.cycles + 1, 256, "branch: cycles += 1") EXCEPT !.cycles = W8(m.cycles + 1)]

\* the body of a taken branch (BCC .. BVS are the same but for the test)
BranchTaken(m, site) ==
    LET s2(n) == [Trap(n, n.pc + n.addr_rel, 65536, site)
                     EXCEPT !.addr_abs = W16(n.pc + n.addr_rel)]
        s3(n) == IF BitAnd(n.addr_abs, 65280) # BitAnd(n.pc, 65280)
                 THEN IncCycles(n)
                 ELSE n
        s4(n) == [n EXCEPT !.pc = n.addr_abs]
    IN  s4(s3(s2(IncCycles(m))))

BCC(m) == <<IF get_flag(m, C) = 0 THEN BranchTaken(m, "BCC: pc + addr_rel") ELSE m, 0>>

BCS(m) == <<IF get_flag(m, C) = 1 THEN BranchTaken(m, "BCS: pc + addr_rel") ELSE m, 0>>

BEQ(m) == <<IF get_flag(m, Z) = 1 THEN BranchTaken(m, "BEQ: pc + addr_rel") ELSE m, 0>>

BMI(m) == <<IF get_flag(m, N) = 1 THEN BranchTaken(m, "BMI: pc + addr_rel") ELSE m, 0>>

BNE(m) == <<IF get_flag(m, Z) = 0 THEN BranchTaken(m, "BNE: pc + addr_rel") ELSE m, 0>>

BPL(m) == <<IF get_flag(m, N) = 0 THEN BranchTaken(m, "BPL: pc + addr_rel") ELSE m, 0>>

BVC(m) == <<IF get_flag(m, V) = 0 THEN BranchTaken(m, "BVC: pc + addr_rel") ELSE m, 0>>

BVS(m) == <<IF get_flag(m, V) = 1 THEN BranchTaken(m, "BVS: pc + addr_rel") ELSE m, 0>>

BIT(m) ==
    LET s2(n) == [n EXCEPT !.temp = BitAnd(n.a, n.fetched)]
        s3(n) == set_flag(n, Z, BitAnd(n.temp, 255) = 0)
        s4(n) == set_flag(n, N, BitAnd(n.fetched, 128) # 0)
        s5(n) == set_flag(n, V, BitAnd(n.fetched, 64) # 0)
    IN  <<s5(s4(s3(s2(fetch(m))))), 0>>

\* the pushes of pc in the other order, low byte first
PushPcLowFirst(m, site) ==
    LET s1(n) == write(n, 256 + n.stkp, BitAnd(n.pc, 255))
        s3(n) == write(n, 256 + n.stkp, BitAnd(n.pc \div 256, 255))
    IN  DecSp(s3(DecSp(s1(m), site)), site)

\* the two pushes of pc shared by BRK, JSR, irq and nmi: high byte, then low byte
PushPc(m, site) ==
    LET s1(n) == write(n, 256 + n.stkp, BitAnd(n.pc \div 256, 255))
        s3(n) == write(n, 256 + n.stkp, BitAnd(n.pc, 255))
    IN  DecSp(s3(DecSp(s1(m), site)), site)

\* write(0x0100 + stkp, status); stkp -= 1
PushStatus(m, site) ==
    LET s1(n) == write(n, 256 + n.stkp, n.status)
    IN  DecSp(s1(m), site)

\* a vector read high byte first
LoadPcHighFirst(m, vector) ==
    [m EXCEPT !.pc = BitOr(read(m, vector + 1), read(m, vector + 0) * 256)]

\* pc = read(vector) | read(vector + 1) << 8
LoadPc(m, vector) ==
    [m EXCEPT !.pc = BitOr(read(m, vector + 0), read(m, vector + 1) * 256)]

\* BRK without its last set_flag(B, false)
BrkLeavesB(m) ==
    LET s2(n) == set_flag(n, I, TRUE)
        s4(n) == set_flag(n, B, TRUE)
    IN  <<LoadPc(PushStatus(s4(PushPc(s2(IncPc(m, "BRK: pc += 1")),
                                      "BRK: stkp -= 1")),
                            "BRK: stkp -= 1"),
                 65534), 0>>

BRK(m) ==
    LET s2(n) == set_flag(n, I, TRUE)
        s4(n) == set_flag(n, B, TRUE)
        s6(n) == set_flag(n, B, FALSE)
    IN  <<LoadPc(s6(PushStatus(s4(PushPc(s2(IncPc(m, "BRK: pc += 1")),
                                         "BRK: stkp -= 1")),
                               "BRK: stkp -= 1")),
                 65534), 0>>

CLC(m) == <<set_flag(m, C, FALSE), 0>>
CLD(m) == <<set_flag(m, D, FALSE), 0>>
CLI(m) == <<set_flag(m, I, FALSE), 0>>
CLV(m) == <<set_flag(m, V, FALSE), 0>>

\* CMP, CPX, CPY with r the register compared: r - fetched is a u8
\* subtraction, widened afterwards
Compare(m, r, site) ==
    LET s2(n) == [Trap(n, r - n.fetched, 256, site) EXCEPT !.temp = W8(r - n.fetched)]
        s3(n) == set_flag(n, C, r >= n.fetched)
        s4(n) == set_flag(n, Z, BitAnd(n.temp, 255) = 0)
        s5(n) == set_flag(n, N, BitAnd(n.temp, 128) # 0)
    IN  <<s5(s4(s3(s2(fetch(m))))), 0>>

CMP(m) == Compare(m, m.a, "CMP: a - fetched")
CPX(m) == Compare(m, m.x, "CPX: x - fetched")
CPY(m) == Compare(m, m.y, "CPY: y - fetched")

\* the tail of DEC and INC: write(addr_abs, temp & 0x00FF); Z and N of temp
StoreTemp(m) ==
    LET s3(n) == write(n, n.addr_abs, BitAnd(n.temp, 255))
        s4(n) == set_flag(n, Z, BitAnd(n.temp, 255) = 0)
        s5(n) == set_flag(n, N, BitAnd(n.temp, 128) # 0)
    IN  s5(s4(s3(m)))

DEC(m) ==
    LET s2(n) == [Trap(n, n.fetched - 1, 256, "DEC: fetched - 1")
                     EXCEPT !.temp = W8(n.fetched - 1)]
    IN  <<StoreTemp(s2(fetch(m))), 0>>

DEX(m) ==
    LET s1(n) == [Trap(n, n.x - 1, 256, "DEX: x -= 1") EXCEPT !.x = W8(n.x - 1)]
        s2(n) == SetZN(n, n.x)
    IN  <<s2(s1(m)), 0>>

DEY(m) ==
    LET s1(n) == [Trap(n, n.y - 1, 256, "DEY: y -= 1") EXCEPT !.y = W8(n.y - 1)]
        s2(n) == SetZN(n, n.y)
    IN  <<s2(s1(m)), 0>>

EOR(m) ==
    LET s2(n) == [n EXCEPT !.a = BitXor(n.a, n.fetched)]
        s3(n) == SetZN(n, n.a)
    IN  <<s3(s2(fetch(m))), 0>>

INC(m) ==
    LET s2(n) == [Trap(n, n.fetched + 1, 256, "INC: fetched + 1")
                     EXCEPT !.temp = W8(n.fetched + 1)]
    IN  <<StoreTemp(s2(fetch(m))), 0>>

INX(m) ==
    LET s1(n) == [Trap(n, n.x + 1, 256, "INX: x += 1") EXCEPT !.x = W8(n.x + 1)]
        s2(n) == SetZN(n, n.x)
    IN  <<s2(s1(m)), 0>>

INY(m) ==
    LET s1(n) == [Trap(n, n.y + 1, 256, "INY: y += 1") EXCEPT !.y = W8(n.y + 1)]
        s2(n) == SetZN(n, n.y)
    IN  <<s2(s1(m)), 0>>

JMP(m) == <<[m EXCEPT !.pc = m.addr_abs], 0>>

JSR(m) ==
    LET s1(n) == [Trap(n, n.pc - 1, 65536, "JSR: pc -= 1") EXCEPT !.pc = W16(n.pc - 1)]
        s6(n) == [n EXCEPT !.pc = n.addr_abs]
    IN  <<s6(PushPc(s1(m), "JSR: stkp -= 1")), 0>>

LDA(m) ==
    LET s2(n) == [n EXCEPT !.a = n.fetched]
        s3(n) == SetZN(n, n.a)
    IN  <<s3(s2(fetch(m))), 1>>

LDX(m) ==
    LET s2(n) == [n EXCEPT !.x = n.fetched]
        s3(n) == SetZN(n, n.x)
    IN  <<s3(s2(fetch(m))), 1>>

LDY(m) ==
    LET s2(n) == [n EXCEPT !.y = n.fetched]
        s3(n) == SetZN(n, n.y)
    IN  <<s3(s2(fetch(m))), 1>>

LSR(m) ==
    LET s2(n) == set_flag(n, C, BitAnd(n.fetched, 1) # 0)
        s3(n) == [n EXCEPT !.temp = n.fetched \div 2]
    IN  <<StoreShift(SetZNTemp(s3(s2(fetch(m))))), 0>>

\* a NOP that steps over one operand byte
NopSkipsByte(m) == <<IncPc(m, "NOP: pc += 1"), 0>>

NOP(m) == <<m, IF m.opcode \in {28, 60, 92, 124, 220, 252} THEN 1 ELSE 0>>

ORA(m) ==
    LET s2(n) == [n EXCEPT !.a = BitOr(n.a, n.fetched)]
        s3(n) == SetZN(n, n.a)
    IN  <<s3(s2(fetch(m))), 1>>

PHA(m) ==
    LET s1(n) == write(n, 256 + n.stkp, n.a)
    IN  <<DecSp(s1(m), "PHA: stkp -= 1"), 0>>

PHP(m) ==
    LET s1(n) == write(n, 256 + n.stkp, BitOr(BitOr(n.status, B), U))
        s2(n) == set_flag(n, B, FALSE)
        s3(n) == set_flag(n, U, FALSE)
    IN  <<DecSp(s3(s2(s1(m))), "PHP: stkp -= 1"), 0>>

PLA(m) ==
    LET s2(n) == [n EXCEPT !.a = read(n, 256 + n.stkp)]
        s3(n) == SetZN(n, n.a)
    IN  <<s3(s2(IncSp(m, "PLA: stkp += 1"))), 0>>

\* stkp += 1; status = read(0x0100 + stkp)
PopStatus(m, site) ==
    LET s2(n) == [n EXCEPT !.status = read(n, 256 + n.stkp)]
    IN  s2(IncSp(m, site))

PLP(m) == <<set_flag(PopStatus(m, "PLP: stkp += 1"), U, TRUE), 0>>

\* ROL and ROR have the same body in the source: (C << 7) | (fetched >> 1)
RotateRight(m) ==
    LET s2(n) == [n EXCEPT !.temp = BitOr(get_flag(n, C) * 128, n.fetched \div 2)]
        s3(n) == set_flag(n, C, BitAnd(n.fetched, 1) # 0)
        s4(n) == set_flag(n, Z, BitAnd(n.temp, 255) = 0)
        s5(n) == set_flag(n, N, BitAnd(n.temp, 128) # 0)
    IN  <<StoreShift(s5(s4(s3(s2(fetch(m)))))), 0>>

ROL(m) == RotateRight(m)
ROR(m) == RotateRight(m)

\* the pops of pc in the other order, high byte first
PopPcHighFirst(m, site) ==
    LET s2(n) == [n EXCEPT !.pc = read(n, 256 + n.stkp) * 256]
        s4(n) == [n EXCEPT !.pc = BitOr(n.pc, read(n, 256 + n.stkp))]
    IN  s4(IncSp(s2(IncSp(m, site)), site))

\* the two pops of pc shared by RTI and RTS: low byte, then high byte
PopPc(m, site) ==
    LET s2(n) == [n EXCEPT !.pc = read(n, 256 + n.stkp)]
        s4(n) == [n EXCEPT !.pc = BitOr(n.pc, read(n, 256 + n.stkp) * 256)]
    IN  s4(IncSp(s2(IncSp(m, site)), site))

RTI(m) ==
    LET s3(n) == [n EXCEPT !.status = BitAnd(n.status, Not8(B))]
        s4(n) == [n EXCEPT !.status = BitAnd(n.status, Not8(U))]
    IN  <<PopPc(s4(s3(PopStatus(m, "RTI: stkp += 1"))), "RTI: stkp += 1"), 0>>

RTS(m) == <<IncPc(PopPc(m, "RTS: stkp += 1"), "RTS: pc += 1"), 0>>

\* an SBC that adds the operand as it is
SbcWithoutComplement(m) ==
    LET s2(n) == [n EXCEPT !.temp = n.a + n.fetched + get_flag(n, C)]
        s3(n) == set_flag(n, C, BitAnd(n.temp, 65280) # 0)
        s5(n) == set_flag(n, V,
                     BitAnd(BitAnd(BitXor(n.temp, n.a), BitXor(n.temp, n.fetched)), 128) # 0)
        s7(n) == [n EXCEPT !.a = BitAnd(n.temp, 255)]
    IN  <<s7(SetZNTemp(s5(s3(s2(fetch(m)))))), 1>>

SBC(m) ==
    LET value(n) == BitXor(n.fetched, 255)
        s2(n) == [n EXCEPT !.temp = n.a + value(n) + get_flag(n, C)]
        s3(n) == set_flag(n, C, BitAnd(n.temp, 65280) # 0)
        s4(n) == set_flag(n, Z, BitAnd(n.temp, 255) = 0)
        s5(n) == set_flag(n, V,
                     BitAnd(BitAnd(BitXor(n.temp, n.a), BitXor(n.temp, value(n))), 128) # 0)
        s6(n) == set_flag(n, N, BitAnd(n.temp, 128) # 0)
        s7(n) == [n EXCEPT !.a = BitAnd(n.temp, 255)]
    IN  <<s7(s6(s5(s4(s3(s2(fetch(m))))))), 1>>

SEC(m) == <<set_flag(m, C, TRUE), 0>>
SED(m) == <<set_flag(m, D, TRUE), 0>>
SEI(m) == <<set_flag(m, I, TRUE), 0>>

\* a store of X where A is meant
StaStoresX(m) == <<write(m, m.addr_abs, m.x), 0>>

STA(m) == <<write(m, m.addr_abs, m.a), 0>>
STX(m) == <<write(m, m.addr_abs, m.x), 0>>
STY(m) == <<write(m, m.addr_abs, m.y), 0>>

TAX(m) == LET s1(n) == [n EXCEPT !.x = n.a] s2(n) == SetZN(n, n.x) IN <<s2(s1(m)), 0>>
TAY(m) == LET s1(n) == [n EXCEPT !.y = n.a] s2(n) == SetZN(n, n.y) IN <<s2(s1(m)), 0>>
TSX(m) == LET s1(n) == [n EXCEPT !.x = n.stkp] s2(n) == SetZN(n, n.x) IN <<s2(s1(m)), 0>>
TXA(m) == LET s1(n) == [n EXCEPT !.a = n.x] s2(n) == SetZN(n, n.a) IN <<s2(s1(m)), 0>>
TXS(m) == <<[m EXCEPT !.stkp = m.x], 0>>
TYA(m) == LET s1(n) == [n EXCEPT !.a = n.y] s2(n) == SetZN(n, n.a) IN <<s2(s1(m)), 0>>

XXX(m) == <<m, 0>>

-----------------------------------------------------------------------------
(* clock, reset, irq, nmi, complete                                        *)

\* (self.lookup[opcode].addr_mode)(self)
AddrModeFn(mode, m) ==
    CASE mode = "IMP" -> IMP(m)
      [] mode = "IMM" -> IMM(m)
      [] mode = "ZP0" -> ZP0(m)
      [] mode = "ZPX" -> ZPX(m)
      [] mode = "ZPY" -> ZPY(m)
      [] mode = "REL" -> REL(m)
      [] mode = "ABS" -> ABS(m)
      [] mode = "ABX" -> ABX(m)
      [] mode = "ABY" -> ABY(m)
      [] mode = "IND" -> IND(m)
      [] mode = "IZX" -> IZX(m)
      [] mode = "IZY" -> IZY(m)

\* (self.lookup[opcode].operate)(self)
OperateFn(op, m) ==
    CASE op = "ADC" -> ADC(m)
      [] op = "AND" -> AND(m)
      [] op = "ASL" -> ASL(m)
      [] op = "BCC" -> BCC(m)
      [] op = "BCS" -> BCS(m)
      [] op = "BEQ" -> BEQ(m)
      [] op = "BIT" -> BIT(m)
      [] op = "BMI" -> BMI(m)
      [] op = "BNE" -> BNE(m)
      [] op = "BPL" -> BPL(m)
      [] op = "BRK" -> BRK(m)
      [] op = "BVC" -> BVC(m)
      [] op = "BVS" -> BVS(m)
      [] op = "CLC" -> CLC(m)
      [] op = "CLD" -> CLD(m)
      [] op = "CLI" -> CLI(m)
      [] op = "CLV" -> CLV(m)
      [] op = "CMP" -> CMP(m)
      [] op = "CPX" -> CPX(m)
      [] op = "CPY" -> CPY(m)
      [] op = "DEC" -> DEC(m)
      [] op = "DEX" -> DEX(m)
      [] op = "DEY" -> DEY(m)
      [] op = "EOR" -> EOR(m)
      [] op = "INC" -> INC(m)
      [] op = "INX" -> INX(m)
      [] op = "INY" -> INY(m)
      [] op = "JMP" -> JMP(m)
      [] op = "JSR" -> JSR(m)
      [] op = "LDA" -> LDA(m)
      [] op = "LDX" -> LDX(m)
      [] op = "LDY" -> LDY(m)
      [] op = "LSR" -> LSR(m)
      [] op = "NOP" -> NOP(m)
      [] op = "ORA" -> ORA(m)
      [] op = "PHA" -> PHA(m)
      [] op = "PHP" -> PHP(m)
      [] op = "PLA" -> PLA(m)
      [] op = "PLP" -> PLP(m)
      [] op = "ROL" -> ROL(m)
      [] op = "ROR" -> ROR(m)
      [] op = "RTI" -> RTI(m)
      [] op = "RTS" -> RTS(m)
      [] op = "SBC" -> SBC(m)
      [] op = "SEC" -> SEC(m)
      [] op = "SED" -> SED(m)
      [] op = "SEI" -> SEI(m)
      [] op = "STA" -> STA(m)
      [] op = "STX" -> STX(m)
      [] op = "STY" -> STY(m)
      [] op = "TAX" -> TAX(m)
      [] op = "TAY" -> TAY(m)
      [] op = "TSX" -> TSX(m)
      [] op = "TXA" -> TXA(m)
      [] op = "TXS" -> TXS(m)
      [] op = "TYA" -> TYA(m)
      [] op = "XXX" -> XXX(m)

\* self.lookup[opcode].cycles
\* a table whose implied-mode entries cost nothing
FreeImplied(opc) ==
    IF lookup[opc + 1].addr_mode = "IMP" THEN 0 ELSE lookup[opc + 1].cycles

BaseCycles(opc) == lookup[opc + 1].cycles

\* additional_cycle1 & additional_cycle2
\* the extra cycle charged when either side asks for it
ExtraCycleEither(additional_cycle1, additional_cycle2) ==
    BitOr(additional_cycle1, additional_cycle2)

ExtraCycle(additional_cycle1, additional_cycle2) ==
    BitAnd(additional_cycle1, additional_cycle2)

\* a clock that leaves U as the instruction left it
UnusedAsLeft(m) == m

\* "Always set the unused status flag bit to 1": set_flag(U, true)
Unused(m) == set_flag(m, U, TRUE)

\* the branch of clock taken with cycles == 0: one whole instruction
Execute(m) ==
    LET s1(n) == [n EXCEPT !.opcode = read(n, n.pc)]
        s4(n) == [n EXCEPT !.cycles = BaseCycles(n.opcode)]
        s5(n) == AddrModeFn(lookup[n.opcode + 1].addr_mode, n)
        s7(n, ex) == [Trap(n, n.cycles + ex, 256, "clock: cycles += extra")
                         EXCEPT !.cycles = W8(n.cycles + ex)]
        s6(r1, r2) == s7(r2[1], ExtraCycle(r1[2], r2[2]))
        s56(r1) == s6(r1, OperateFn(lookup[r1[1].opcode + 1].operate, r1[1]))
    IN  Unused(s56(s5(s4(IncPc(Unused(s1(m)), "clock: pc += 1")))))

\* v == u32::MAX, in 16-bit halves (the checker's integers end below 2^32)
IsU32Max(v) == v \div 65536 = 65535 /\ v % 65536 = 65535

\* a clock that reads the opcode at pc on every tick
ClockReadsAhead(m) ==
    LET s1(n) == IF n.cycles = 0 THEN Execute(n) ELSE [n EXCEPT !.opcode = read(n, n.pc)]
        s2(n) == IF IsU32Max(n.clock_count)
                 THEN [Trap(n, -1, 1, "clock: clock_count += 1") EXCEPT !.clock_count = 0]
                 ELSE [n EXCEPT !.clock_count = n.clock_count + 1]
        s3(n) == [Trap(n, n.cycles - 1, 256, "clock: cycles -= 1")
                     EXCEPT !.cycles = W8(n.cycles - 1)]
    IN  s3(s2(s1(m)))

clock(m) ==
    LET s1(n) == IF n.cycles = 0 THEN Execute(n) ELSE n
        s2(n) == IF IsU32Max(n.clock_count)
                 THEN [Trap(n, -1, 1, "clock: clock_count += 1") EXCEPT !.clock_count = 0]
                 ELSE [n EXCEPT !.clock_count = n.clock_count + 1]
        s3(n) == [Trap(n, n.cycles - 1, 256, "clock: cycles -= 1")
                     EXCEPT !.cycles = W8(n.cycles - 1)]
    IN  s3(s2(s1(m)))

reset(m) ==
    LET s1(n) == [n EXCEPT !.addr_abs = 65532]
        s2(n) == LoadPc(n, n.addr_abs)
        s3(n) == [n EXCEPT !.a = 0, !.x = 0, !.y = 0, !.stkp = 253,
                           !.status = BitOr(0, U)]
        s4(n) == [n EXCEPT !.addr_rel = 0, !.addr_abs = 0, !.fetched = 0]
        s5(n) == [n EXCEPT !.cycles = 8]
    IN  s5(s4(s3(s2(s1(m)))))

\* the body shared by irq and nmi
Interrupt(m, site, vector, takes) ==
    LET s2(n) == set_flag(n, B, FALSE)
        s3(n) == set_flag(n, U, TRUE)
        s4(n) == set_flag(n, I, TRUE)
        s6(n) == [n EXCEPT !.addr_abs = vector]
        s7(n) == LoadPc(n, n.addr_abs)
        s8(n) == [n EXCEPT !.cycles = takes]
    IN  s8(s7(s6(PushStatus(s4(s3(s2(PushPc(m, site)))), site))))

\* an irq that is taken whatever I is
IrqUnmasked(m) == Interrupt(m, "irq: stkp -= 1", 65534, 7)

irq(m) == IF get_flag(m, I) = 0 THEN Interrupt(m, "irq: stkp -= 1", 65534, 7) ELSE m

\* an nmi that I masks
NmiMasked(m) == IF get_flag(m, I) = 0 THEN Interrupt(m, "nmi: stkp -= 1", 65530, 8) ELSE m

nmi(m) == Interrupt(m, "nmi: stkp -= 1", 65530, 8)

complete(m) == m.cycles = 0

(* disassemble(start, stop).  Its locals are the record d: addr, line_addr *)
(* and map_lines, of which the keys are kept (the text of a line is a      *)
(* rendering of the bytes read and is left out), and where it stands:      *)
(* "scanning" in the loop, "returned", or the site of a panic.             *)

\* let mut addr = start; ... ; BTreeMap::new()
Enter(start, stop) ==
    [at |-> "scanning", start |-> start, stop |-> stop, addr |-> start,
     line_addr |-> 0, map_lines |-> {}]

\* addr += 1 on a u16
NextAddr(d, site) ==
    IF d.at # "scanning" THEN d
    ELSE IF d.addr + 1 > 65535
         THEN (IF overflow_checks THEN [d EXCEPT !.at = site] ELSE [d EXCEPT !.addr = 0])
         ELSE [d EXCEPT !.addr = d.addr + 1]

\* the operand bytes the branch of an addressing mode reads
OperandBytes(mode) ==
    CASE mode = "IMP" -> 0
      [] mode \in {"ABS", "ABX", "ABY", "IND"} -> 2
      [] OTHER -> 1

\* the reads of the operand bytes, each followed by addr += 1
SkipOperand(d, count) ==
    IF count = 0 THEN d
    ELSE IF count = 1 THEN NextAddr(d, "disassemble: addr += 1")
    ELSE NextAddr(NextAddr(d, "disassemble: addr += 1"), "disassemble: addr += 1")

\* addr + (value as u16) in the text of a REL line
RelText(d, mode, value) ==
    IF d.at = "scanning" /\ mode = "REL" /\ overflow_checks /\ d.addr + value > 65535
    THEN [d EXCEPT !.at = "disassemble: addr + value"]
    ELSE d

\* if addr == 0xFFFF - 1 { break; } map_lines.insert(line_addr, ..); the
\* loop condition (addr as u32) <= 0xFFFF holds of every u16
EndOfLine(d) ==
    IF d.at # "scanning" THEN d
    ELSE IF d.addr = 65535 - 1 THEN [d EXCEPT !.at = "returned"]
    ELSE [d EXCEPT !.map_lines = @ \cup {d.line_addr}]

\* one turn of the loop on the memory ram
Line(ram, d) ==
    LET opcode == BusRead(ram, d.addr)
        mode == lookup[opcode + 1].addr_mode
        s1(e) == [e EXCEPT !.line_addr = e.addr]
        s2(e) == NextAddr(e, "disassemble: addr += 1")
        s3(e) == SkipOperand(e, OperandBytes(mode))
        s4(e) == RelText(e, mode, BusRead(ram, (d.addr + 1) % 65536))
    IN  EndOfLine(s4(s3(s2(s1(d)))))

\* a disassemble that keeps the byte it decodes in self.opcode
ListedIntoOpcode(m, opcode) == [m EXCEPT !.opcode = opcode]

\* what disassemble does to the machine: it assigns no field of self and
\* reads memory through Bus::read, which assigns nothing
Listed(m, opcode) == m

-----------------------------------------------------------------------------
(* The host.  It builds a cpu6502, writes an image into the ram of its bus *)
(* and then calls reset, clock, irq and nmi in any order.  A call that     *)
(* panics ends the program: the machine is left as the call found it, with *)
(* the place of the panic recorded, and nothing can be called any more.    *)

MaxTicks == 17
MaxSignals == 2

Alive == cpu.panic = "none"

Land(m) == IF m.panic # "none" THEN [cpu EXCEPT !.panic = m.panic] ELSE m

\* the bytes at org, org + 1, ... as a ram (zero bytes are the default)
Place(org, bytes) ==
    [k \in {org + j - 1 : j \in {i \in 1..Len(bytes) : bytes[i] # 0}} |-> bytes[k - org + 1]]

\* the three vectors: nmi at FFFA, reset at FFFC, irq at FFFE
Vectors(nmiv, resetv, irqv) ==
    Place(65530, <<nmiv % 256, nmiv \div 256, resetv % 256, resetv \div 256,
                   irqv % 256, irqv \div 256>>)

\* SEI PHP PLP RTI at 0000, PHP PLP at 8000 (reset), RTI at 9000 (irq),
\* PLP RTI at A000 (nmi)
ImageA ==
    Place(0, <<120, 8, 40, 64>>) @@ Place(32768, <<8, 40>>) @@ Place(36864, <<64>>)
        @@ Place(40960, <<40, 64>>) @@ Vectors(40960, 32768, 36864)

\* PLP RTI PHP at 0000, RTI at C0DE (reset), PHP PLP at 0234 (irq), SEI BRK at
\* 01F8 (nmi, inside the stack page)
ImageB ==
    Place(0, <<40, 64, 8>>) @@ Place(49374, <<64>>) @@ Place(564, <<8, 40>>)
        @@ Place(504, <<120, 0>>) @@ Vectors(504, 49374, 564)

\* NOP NOP at 8000 (reset), RTI at B000 (irq and nmi)
ImageC ==
    Place(32768, <<234, 234>>) @@ Place(45056, <<64>>) @@ Vectors(45056, 32768, 45056)

Images == {ImageA, ImageB, ImageC}

NoPeriod == [kind |-> "new", ticks |-> 0]

\* disassemble has not been called
NoScan == [at |-> "idle"]

Init ==
    /\ overflow_checks \in BOOLEAN
    /\ cpu \in {NewCpu(image) : image \in Images}
    /\ last = [op |-> "new", pre |-> cpu]
    /\ ins = [kind |-> "new", pre |-> cpu, ticks |-> 0, prior |-> NoPeriod]
    /\ signals = 0
    /\ scan = NoScan

\* what a call leaves of the period in progress: a call that changed the
\* machine starts a period of its own
Period(kind) ==
    IF cpu' = cpu THEN ins
    ELSE [kind |-> kind, pre |-> cpu, ticks |-> 0,
          prior |-> [kind |-> ins.kind, ticks |-> ins.ticks, pre |-> ins.pre]]

\* one call of clock() by a host that stops after limit ticks
Tick(limit) ==
    /\ Alive
    /\ cpu.clock_count < limit
    /\ cpu' = Land(clock(cpu))
    /\ last' = [op |-> "clock", pre |-> cpu]
    /\ ins' = IF cpu.cycles = 0
              THEN [kind |-> "instr", pre |-> cpu, ticks |-> 1,
                    prior |-> [kind |-> ins.kind, ticks |-> ins.ticks, pre |-> ins.pre]]
              ELSE [ins EXCEPT !.ticks = @ + 1]
    /\ UNCHANGED <<overflow_checks, signals, scan>>

Clock == Tick(MaxTicks)

Reset ==
    /\ Alive
    /\ signals < MaxSignals
    /\ cpu' = Land(reset(cpu))
    /\ last' = [op |-> "reset", pre |-> cpu]
    /\ ins' = [kind |-> "reset", pre |-> cpu, ticks |-> 0,
               prior |-> [kind |-> ins.kind, ticks |-> ins.ticks, pre |-> ins.pre]]
    /\ signals' = signals + 1
    /\ UNCHANGED <<overflow_checks, scan>>

Irq ==
    /\ Alive
    /\ signals < MaxSignals
    /\ cpu' = Land(irq(cpu))
    /\ last' = [op |-> "irq", pre |-> cpu]
    /\ ins' = Period("irq")
    /\ signals' = signals + 1
    /\ UNCHANGED <<overflow_checks, scan>>

Nmi ==
    /\ Alive
    /\ signals < MaxSignals
    /\ cpu' = Land(nmi(cpu))
    /\ last' = [op |-> "nmi", pre |-> cpu]
    /\ ins' = Period("nmi")
    /\ signals' = signals + 1
    /\ UNCHANGED <<overflow_checks, scan>>

Next == Clock \/ Reset \/ Irq \/ Nmi

Spec == Init /\ [][Next]_vars

-----------------------------------------------------------------------------
(* One instruction at a time: the machine stands at an instruction         *)
(* boundary at 80FD or 8000 with any of the 256 opcodes there, operand     *)
(* bytes, registers and flags that make the page crossings and both        *)
(* outcomes of every branch happen, and the host only ticks.               *)

StepTicks == 9

\* a pointer at 0010 for the indirect modes and data where the operands point
StepData == Place(16, <<240, 32>>) @@ Place(255, <<255, 3>>) @@ Place(8448, <<1>>)

StepProgram(org, opc, lo, hi) == Place(org, <<opc, lo, hi>>) @@ StepData

StepMachine(org, opc, lo, hi, xy, st) ==
    [NewCpu(StepProgram(org, opc, lo, hi))
        EXCEPT !.pc = org, !.stkp = 253, !.status = st, !.a = 129,
               !.x = xy[1], !.y = xy[2]]

StepOrigins == {32768, 33021}
StepLows == {0, 16, 128, 255}
StepHighs == {0, 32}
StepIndexes == {<<0, 0>>, <<1, 16>>}
StepFlags == {32, 32 + 195}

InitStep ==
    /\ overflow_checks \in BOOLEAN
    /\ \E org \in StepOrigins, opc \in 0..255, lo \in StepLows, hi \in StepHighs,
          xy \in StepIndexes, st \in StepFlags :
          cpu = StepMachine(org, opc, lo, hi, xy, st)
    /\ last = [op |-> "new", pre |-> cpu]
    /\ ins = [kind |-> "new", pre |-> cpu, ticks |-> 0, prior |-> NoPeriod]
    /\ signals = 0
    /\ scan = NoScan

StepClock == Tick(StepTicks)

NextStep == StepClock

SpecStep == InitStep /\ [][NextStep]_vars

-----------------------------------------------------------------------------
(* The arithmetic and logic unit: ADC, SBC, AND, ORA and EOR immediate at  *)
(* 8000 with every A, either carry and the operands of AluOperands, and    *)
(* the host only ticks.                                                    *)

AluTicks == 2

\* ADC #, SBC #, AND #, ORA #, EOR #
AluOpcodes == {105, 233, 41, 9, 73}

\* the flags the instruction finds: U, the carry, and for the odd operands
\* Z, D, V and N as well
AluFlags(mm, cin) == 32 + cin + (IF mm % 2 = 1 THEN 202 ELSE 0)

AluMachine(opc, aa, mm, cin) ==
    [NewCpu(Place(32768, <<opc, mm>>))
        EXCEPT !.pc = 32768, !.stkp = 253, !.a = aa, !.status = AluFlags(mm, cin)]

\* the operands: the ends and the middle of both signs, single bits,
\* alternating bits and their complements
AluOperands ==
    {0, 1, 2, 3, 15, 16, 63, 64, 85, 126, 127, 128, 129, 170, 191, 192, 239, 240,
     254, 255}

InitALU ==
    /\ overflow_checks \in BOOLEAN
    /\ \E opc \in AluOpcodes, aa \in 0..255, mm \in AluOperands, cin \in 0..1 :
          cpu = AluMachine(opc, aa, mm, cin)
    /\ last = [op |-> "new", pre |-> cpu]
    /\ ins = [kind |-> "new", pre |-> cpu, ticks |-> 0, prior |-> NoPeriod]
    /\ signals = 0
    /\ scan = NoScan

AluClock == Tick(AluTicks)

NextALU == AluClock

SpecALU == InitALU /\ [][NextALU]_vars

-----------------------------------------------------------------------------
(* What the claims are stated with.  These definitions read bits and bytes *)
(* by arithmetic, not with the operators of the model.                     *)

\* bit f (a power of two) of v
Bit(v, f) == (v \div f) % 2

\* the 16-bit word stored low byte first at addr
Word(ram, addr) == BusRead(ram, addr) + 256 * BusRead(ram, addr + 1)

\* the stack slot k below the one sp selects
Slot(sp, k) == 256 + ((sp - k) % 256)

\* an interrupt was taken from machine p and left machine q: the three
\* pushes, SP, the flags, the vector and the cycles
Taken(p, q, vector, takes) ==
    /\ BusRead(q.ram, Slot(p.stkp, 0)) = p.pc \div 256
    /\ BusRead(q.ram, Slot(p.stkp, 1)) = p.pc % 256
    /\ BusRead(q.ram, Slot(p.stkp, 2)) = q.status
    /\ \A k \in DOMAIN p.ram \cup DOMAIN q.ram :
          k \notin {Slot(p.stkp, 0), Slot(p.stkp, 1), Slot(p.stkp, 2)}
              => BusRead(q.ram, k) = BusRead(p.ram, k)
    /\ q.stkp = (p.stkp - 3) % 256
    /\ Bit(q.status, B) = 0 /\ Bit(q.status, U) = 1 /\ Bit(q.status, I) = 1
    /\ q.pc = Word(q.ram, vector)
    /\ q.cycles = takes

\* the instruction in progress is the one with opcode opc
Running(opc) ==
    /\ ins.kind = "instr" /\ Alive
    /\ BusRead(ins.pre.ram, ins.pre.pc) = opc
    /\ cpu.opcode = opc

\* the operand byte of the instruction in progress (immediate mode)
Operand == BusRead(ins.pre.ram, ins.pre.pc + 1)

-----------------------------------------------------------------------------
(* C1.  A tick entered with cycles = 0 fetches the opcode at PC, executes  *)
(* the whole instruction and leaves the counter such that it takes base    *)
(* cycles + (the mode's extra AND the operation's extra) + the branch      *)
(* penalties ticks, the fetch tick included, until complete() is first     *)
(* true; the ticks in between change nothing but the counters;             *)
(* complete() is true exactly when cycles = 0.                             *)

\* the machine as clock hands it to the addressing mode
Decoded(p) ==
    [p EXCEPT !.opcode = BusRead(p.ram, p.pc), !.pc = (p.pc + 1) % 65536,
              !.status = p.status + (1 - Bit(p.status, U)) * U]

\* what the addressing mode and then the operation return
ModeReturn(p) == AddrModeFn(lookup[BusRead(p.ram, p.pc) + 1].addr_mode, Decoded(p))
OpReturn(p) == OperateFn(lookup[BusRead(p.ram, p.pc) + 1].operate, ModeReturn(p)[1])

\* the flag a branch tests and the value it wants
BranchTest ==
    [BCC |-> <<C, 0>>, BCS |-> <<C, 1>>, BNE |-> <<Z, 0>>, BEQ |-> <<Z, 1>>,
     BPL |-> <<N, 0>>, BMI |-> <<N, 1>>, BVC |-> <<V, 0>>, BVS |-> <<V, 1>>]

\* one cycle for a branch that is taken, one more when it leaves the page
\* of the instruction that follows it; q is the machine after the branch
BranchPenalty(p, q) ==
    LET op == lookup[BusRead(p.ram, p.pc) + 1].operate
    IN  IF op \in DOMAIN BranchTest /\ Bit(p.status, BranchTest[op][1]) = BranchTest[op][2]
        THEN 1 + (IF q.pc \div 256 # ((p.pc + 2) % 65536) \div 256 THEN 1 ELSE 0)
        ELSE 0

TotalTicks(p, q) ==
    lookup[BusRead(p.ram, p.pc) + 1].cycles
        + (IF ModeReturn(p)[2] = 1 /\ OpReturn(p)[2] = 1 THEN 1 ELSE 0)
        + BranchPenalty(p, q)

-----------------------------------------------------------------------------
(* C2.  reset(), whatever the machine, loads PC from FFFC/FFFD, zeroes A,  *)
(* X, Y, addr_abs, addr_rel and fetched, sets SP = FD, P = 20 and cycles   *)
(* = 8 and leaves memory alone; the 8 ticks that follow execute nothing,   *)
(* and the tick after them (the 9th) fetches the opcode at the vector.     *)

AfterReset(p, q) ==
    /\ q.pc = Word(p.ram, 65532)
    /\ q.a = 0 /\ q.x = 0 /\ q.y = 0
    /\ q.stkp = 253 /\ q.status = 32
    /\ q.addr_abs = 0 /\ q.addr_rel = 0 /\ q.fetched = 0
    /\ q.ram = p.ram
    /\ q.opcode = p.opcode

C2_Reset ==
    /\ (last.op = "reset" /\ Alive) => AfterReset(last.pre, cpu) /\ cpu.cycles = 8
    /\ (ins.kind = "reset" /\ Alive) =>
          /\ AfterReset(ins.pre, cpu)
          /\ ins.ticks <= 8
          /\ cpu.cycles = 8 - ins.ticks
          /\ complete(cpu) <=> ins.ticks = 8
    /\ (ins.kind = "instr" /\ ins.prior.kind = "reset") =>
          /\ ins.prior.ticks = 8
          /\ ins.pre.pc = Word(ins.pre.ram, 65532)
          /\ (ins.ticks = 1 /\ Alive) => cpu.opcode = BusRead(ins.pre.ram, ins.pre.pc)

\* the 9th tick after a reset that found the machine in the middle of
\* something has fetched the opcode at the vector
C2_Witness ==
    /\ ins.kind = "instr" /\ ins.prior.kind = "reset" /\ ins.ticks = 1 /\ Alive
    /\ signals = 2
    /\ cpu.opcode = BusRead(cpu.ram, Word(cpu.ram, 65532))
    /\ cpu.opcode # 0

-----------------------------------------------------------------------------
(* C3.  irq() with I = 0 pushes PC high, PC low and the status (B = 0,     *)
(* U = 1, I = 1) at 0100+SP, 0100+SP-1, 0100+SP-2 (SP counts modulo 256),  *)
(* leaves SP three lower, B = 0, U = 1, I = 1, PC = the word at FFFE and   *)
(* cycles = 7.                                                             *)

-----------------------------------------------------------------------------
(* C4.  irq() with I set changes nothing: no register, flag, scratch       *)
(* field, cycle counter or memory byte.                                    *)

C4_IrqMasked ==
    (last.op = "irq" /\ Bit(last.pre.status, I) = 1) => cpu = last.pre

C4_Witness ==
    /\ last.op = "irq" /\ Bit(last.pre.status, I) = 1
    /\ cpu = last.pre /\ cpu.cycles > 0

-----------------------------------------------------------------------------
(* C5.  nmi() is not masked: with I clear or set it makes the pushes of an *)
(* irq that is taken, then PC = the word at FFFA and cycles = 8.           *)

-----------------------------------------------------------------------------
(* C6.  After every tick bit 5 (U) of the status register is 1, also after *)
(* PHP, PLP and RTI.                                                       *)

C6_UnusedSet ==
    (last.op = "clock" /\ Alive) => Bit(cpu.status, U) = 1

\* the tick that executed PHP, which clears U inside the instruction
C6_Witness ==
    /\ last.op = "clock" /\ Alive
    /\ ins.kind = "instr" /\ ins.ticks = 1 /\ cpu.opcode = 8
    /\ BusRead(cpu.ram, Slot(ins.pre.stkp, 0)) # 0
    /\ Bit(cpu.status, U) = 1

-----------------------------------------------------------------------------
(* C7.  The cycle counter neither underflows nor overflows: no cycles      *)
(* arithmetic panics, no tick wraps the counter round to 255, and every    *)
(* entry of the table has at least one base cycle.                         *)

C7_CyclesInRange ==
    /\ cpu.panic \notin {"clock: cycles -= 1", "clock: cycles += extra",
                         "branch: cycles += 1"}
    /\ cpu.cycles \in 0..254
    /\ (last.op = "clock" /\ Alive /\ last.pre.cycles > 0)
          => cpu.cycles = last.pre.cycles - 1
    /\ (last.op = "clock" /\ Alive /\ last.pre.cycles = 0)
          => cpu.cycles + 1 >= BaseCycles(cpu.opcode)
    /\ \A opc \in 0..255 : BaseCycles(opc) >= 1

\* a tick has taken the counter from 1 to 0
C7_Witness ==
    /\ last.op = "clock" /\ Alive
    /\ last.pre.cycles = 1 /\ cpu.cycles = 0

-----------------------------------------------------------------------------
(* C8.  ADC with A, operand M and carry C leaves A' = (A + M + C) mod 256, *)
(* C' = (A + M + C) > 255, V' = A and M both differ from A' in bit 7,      *)
(* Z' = (A' = 0) and N' = bit 7 of A'.                                     *)

Flag(m, f) == Bit(m.status, f) = 1

C8_Adc ==
    Running(105) =>
        LET sum == ins.pre.a + Operand + Bit(ins.pre.status, C)
        IN  /\ cpu.a = sum % 256
            /\ Flag(cpu, C) <=> sum > 255
            /\ Flag(cpu, V) <=> /\ Bit(ins.pre.a, 128) # Bit(cpu.a, 128)
                                /\ Bit(Operand, 128) # Bit(cpu.a, 128)
            /\ Flag(cpu, Z) <=> cpu.a = 0
            /\ Flag(cpu, N) <=> Bit(cpu.a, 128) = 1

\* 7F + 00 + carry = 80: signed overflow without a carry out
C8_Witness ==
    /\ Running(105)
    /\ ins.pre.a = 127 /\ Operand = 0 /\ Bit(ins.pre.status, C) = 1
    /\ cpu.a = 128 /\ Flag(cpu, V) /\ Flag(cpu, N) /\ ~Flag(cpu, C)

-----------------------------------------------------------------------------
(* C9.  SBC with operand M leaves the A and the C, Z, V and N that ADC     *)
(* with operand M XOR FF leaves when it starts from the same machine.      *)

\* the machine p with ADC #(M XOR FF) in place of its SBC #M, one tick on
AdcTwin(p) ==
    clock([p EXCEPT !.ram = BusWrite(BusWrite(p.ram, p.pc, 105), p.pc + 1,
                                     255 - BusRead(p.ram, p.pc + 1))])

C9_SbcIsAdcOfComplement ==
    (Running(233) /\ ins.ticks = 1) =>
        /\ cpu.a = AdcTwin(ins.pre).a
        /\ \A f \in {C, Z, V, N} : Bit(cpu.status, f) = Bit(AdcTwin(ins.pre).status, f)

\* 80 - 01 with the carry set = 7F: overflow, no borrow
C9_Witness ==
    /\ Running(233) /\ ins.ticks = 1
    /\ ins.pre.a = 128 /\ Operand = 1 /\ Bit(ins.pre.status, C) = 1
    /\ cpu.a = 127 /\ Flag(cpu, V) /\ Flag(cpu, C)
    /\ AdcTwin(ins.pre).a = 127

-----------------------------------------------------------------------------
(* C10.  After ADC, SBC, AND, ORA and EOR, N is bit 7 of the result in A   *)
(* and Z says whether that result is zero.                                 *)

C10_NZFollowResult ==
    \A opc \in AluOpcodes :
        Running(opc) =>
            /\ Flag(cpu, N) <=> Bit(cpu.a, 128) = 1
            /\ Flag(cpu, Z) <=> cpu.a = 0

\* EOR of a negative A with itself: N and Z were 1 and 0, the result is 0
C10_Witness ==
    /\ Running(73)
    /\ ins.pre.a = 129 /\ Operand = 129
    /\ cpu.a = 0 /\ Flag(cpu, Z) /\ ~Flag(cpu, N)

-----------------------------------------------------------------------------
(* C11.  Each of the eight branches, with every displacement, takes 2      *)
(* ticks when its condition is false, 3 when it is taken to the page of    *)
(* the instruction that follows it and 4 when it is taken to another page. *)

\* the byte d as a signed displacement
SignExt8(d) == IF d >= 128 THEN d - 256 ELSE d

\* the opcode the machine p would fetch, and its row of the table
OpcodeAt(p) == BusRead(p.ram, p.pc)
RowAt(p) == lookup[OpcodeAt(p) + 1]

IsBranch(p) == RowAt(p).operate \in DOMAIN BranchTest /\ RowAt(p).addr_mode = "REL"

BranchHolds(p) == Bit(p.status, BranchTest[RowAt(p).operate][1]) = BranchTest[RowAt(p).operate][2]

\* where a branch at p.pc goes when it is taken
BranchTarget(p) == (p.pc + 2 + SignExt8(BusRead(p.ram, (p.pc + 1) % 65536))) % 65536

BranchTicks(p) ==
    IF ~BranchHolds(p) THEN 2
    ELSE IF BranchTarget(p) \div 256 = ((p.pc + 2) % 65536) \div 256 THEN 3
    ELSE 4

\* the statement on the instructions that run to their end
BranchTimed ==
    /\ cpu.cycles = BranchTicks(ins.pre) - ins.ticks
    /\ complete(cpu) <=> ins.ticks = BranchTicks(ins.pre)

C11_BranchTicks ==
    (ins.kind = "instr" /\ IsBranch(ins.pre)) => Alive /\ BranchTimed

-----------------------------------------------------------------------------
(* Programs run from reset: main writes the program at 8000 and the reset  *)
(* vector 8000, constructs the cpu, resets it and ticks.                   *)

RunTicks == 32

\* the reset vector main writes: FFFC = 00, FFFD = 80
ResetVector == Place(65532, <<0, 128>>)

\* the programs run, each with the reset vector at its first byte
Programs ==
    LET \* JMP ($10FF) with 34 at 10FF, 12 at 1000, CD at 1100 and 56 at 00FF
        ProgJmpPageEnd ==
            Place(32768, <<108, 255, 16>>) @@ Place(4351, <<52, 205>>)
                @@ Place(4096, <<18>>) @@ Place(255, <<86>>) @@ ResetVector
        \* JMP ($10FE) with the same data: the pointer does not end its page
        ProgJmpInPage ==
            Place(32768, <<108, 254, 16>>) @@ Place(4350, <<120, 52, 205>>)
                @@ Place(4096, <<18>>) @@ Place(255, <<86>>) @@ ResetVector
        \* LDA #$42; PHA; LDA #$00; PLA
        ProgPushPull == Place(32768, <<169, 66, 72, 169, 0, 104>>) @@ ResetVector
        \* LDX #sp; TXS; LDA #aa; PHA; LDA #$00; PLA
        ProgStack(sp, aa) ==
            Place(32768, <<162, sp, 154, 169, aa, 72, 169, 0, 104>>) @@ ResetVector
        StackBytes == {0, 66, 128}
        \* LDX #sp; TXS; JSR target at org, RTS at target, the reset vector at org
        ProgCall(org, sp, target) ==
            Place(org, <<162, sp, 154, 32, target % 256, target \div 256>>)
                @@ Place(target, <<96>>) @@ Place(65532, <<org % 256, org \div 256>>)
        \* LDX #sp; TXS; JMP $FFFD at 2000 and JSR target in the last three
        \* bytes of memory, where its opcode 20 is the high byte of the reset
        \* vector 2000
        ProgCallAtTop(sp, target) ==
            Place(8192, <<162, sp, 154, 76, 253, 255>>) @@ Place(target, <<96>>)
                @@ Place(65532, <<0, 32, target % 256, target \div 256>>)
        CallOrigins == {32768, 33019}
        CallStacks == {0, 1, 2, 128, 253, 255}
        CallTargets == {36864, 564, 4863}
        \* LDA #pp; PHA; PLP; PHP; PLP
        ProgFlags(pp) == Place(32768, <<169, pp, 72, 40, 8, 40>>) @@ ResetVector
        \* LDA #pp; PHA; PLP; LDX #sp; TXS; BRK with the irq vector 1234 and
        \* RTI there
        ProgBreak(sp, pp) ==
            Place(32768, <<169, pp, 72, 40, 162, sp, 154, 0>>)
                @@ Place(4660, <<64>>) @@ Place(65532, <<0, 128, 52, 18>>)
        BreakFlags == {0, 4, 73, 255}
        \* LDX #$03; DEX; BNE -3; BRK
        ProgLoop == Place(32768, <<162, 3, 202, 208, 253, 0>>) @@ ResetVector
        \* LDA #$05; STA $0200; ADC #$03
        ProgLoadStoreAdd == Place(32768, <<169, 5, 141, 0, 2, 105, 3>>) @@ ResetVector
        \* LDX #v; LDY #v; INX; INY; DEX; DEX; DEY; DEY
        ProgCount(v) ==
            Place(32768, <<162, v, 160, v, 232, 200, 202, 202, 136, 136>>) @@ ResetVector
        CountFrom == {0, 127, 255}
        \* LDX #$01; LDA $FFFF,X; LDY #$10; LDA $FFF8,Y
        ProgIndexPastTop ==
            Place(32768, <<162, 1, 189, 255, 255, 160, 16, 185, 248, 255>>) @@ ResetVector
        \* JMP $FFFF with NOP in the last byte of memory
        ProgRunPastTop ==
            Place(32768, <<76, 255, 255>>) @@ Place(65535, <<234>>) @@ ResetVector
    IN  {ProgJmpPageEnd, ProgJmpInPage, ProgPushPull, ProgLoop, ProgLoadStoreAdd,
         ProgIndexPastTop, ProgRunPastTop}
            \cup {ProgCount(v) : v \in CountFrom}
            \cup {ProgStack(sp, aa) : sp \in 0..255, aa \in StackBytes}
            \cup {ProgCall(org, sp, target) :
                     org \in CallOrigins, sp \in CallStacks, target \in CallTargets}
            \cup {ProgCallAtTop(sp, target) : sp \in CallStacks, target \in CallTargets}
            \cup {ProgFlags(pp) : pp \in 0..255}
            \cup {ProgBreak(sp, pp) : sp \in CallStacks, pp \in BreakFlags}

InitRun ==
    /\ overflow_checks \in BOOLEAN
    /\ \E image \in Programs : cpu = reset(NewCpu(image))
    /\ last = [op |-> "reset", pre |-> cpu]
    /\ ins = [kind |-> "reset", pre |-> cpu, ticks |-> 0, prior |-> NoPeriod]
    /\ signals = 0
    /\ scan = NoScan

RunClock == Tick(RunTicks)

NextRun == RunClock

SpecRun == InitRun /\ [][NextRun]_vars

-----------------------------------------------------------------------------
(* Listings: the host calls disassemble(start, stop) on the machine it has *)
(* built, as main does before its cpu.reset(), or after resets and ticks.  *)
(* A call is followed turn by turn of its loop, and nothing else runs      *)
(* until it has returned.  A scan is followed until its map has ListLines  *)
(* lines: one that passes the end of memory without a panic goes on for    *)
(* 21845 turns or more.                                                    *)

ListTicks == 2
ListLines == 12

\* the program main loads at 8000 and the reset vector it writes
ProgMain ==
    Place(32768, <<162, 10, 142, 0, 0, 162, 3, 142, 1, 0, 172, 0, 0, 169, 0, 24,
                   109, 1, 0, 136, 208, 250, 141, 2, 0, 234, 234, 234>>) @@ ResetVector

\* the memories listed: main's, one of zero bytes as Bus::new leaves it,
\* JMP $1234 in FFFB-FFFD, and BNE with displacement F0 in FFFC-FFFD
ListImages ==
    {ProgMain, Place(0, <<>>), Place(65531, <<76, 52, 18>>), Place(65532, <<208, 240>>)}

\* scans of the last bytes of memory
ListStarts == 65520..65535
ListStops == {65528, 65535}

InitList ==
    /\ overflow_checks \in BOOLEAN
    /\ \E image \in ListImages : cpu = NewCpu(image)
    /\ last = [op |-> "new", pre |-> cpu]
    /\ ins = [kind |-> "new", pre |-> cpu, ticks |-> 0, prior |-> NoPeriod]
    /\ signals = 0
    /\ scan = NoScan

\* cpu.disassemble(start, stop) is entered
Disassemble ==
    /\ Alive
    /\ scan = NoScan
    /\ \E start \in ListStarts, stop \in ListStops :
          /\ start <= stop
          /\ scan' = Enter(start, stop)
    /\ last' = [op |-> "disassemble", pre |-> cpu]
    /\ UNCHANGED <<cpu, overflow_checks, ins, signals>>

\* one turn of its loop; a panic ends the program
ScanLine ==
    /\ Alive
    /\ scan.at = "scanning"
    /\ Cardinality(scan.map_lines) < ListLines
    /\ scan' = Line(cpu.ram, scan)
    /\ cpu' = IF scan'.at \in {"scanning", "returned"}
              THEN Listed(cpu, BusRead(cpu.ram, scan.addr))
              ELSE [cpu EXCEPT !.panic = scan'.at]
    /\ UNCHANGED <<overflow_checks, last, ins, signals>>

ListReset == scan.at # "scanning" /\ Reset

ListClock == scan.at # "scanning" /\ Tick(ListTicks)

NextList == Disassemble \/ ScanLine \/ ListReset \/ ListClock

SpecList == InitList /\ [][NextList]_vars

\* a call of disassemble runs on until it returns or panics
SpecListFair == SpecList /\ WF_vars(ScanLine)

-----------------------------------------------------------------------------
(* C12.  JMP (ptr) with the low byte of ptr = FF leaves PC = mem[ptr] |    *)
(* mem[ptr AND FF00] << 8, the high byte coming from the start of the      *)
(* pointer's own page (JMP ($10FF) with 34 at 10FF and 12 at 1000 leaves   *)
(* PC = 1234); with any other low byte PC = mem[ptr] | mem[ptr + 1] << 8.  *)

\* the pointer of the JMP (ptr) at p.pc and where the claim says it leads
JmpPointer(p) == Word(p.ram, p.pc + 1)

JmpTarget(p) ==
    LET ptr == JmpPointer(p)
    IN  IF ptr % 256 = 255
        THEN BusRead(p.ram, ptr) + 256 * BusRead(p.ram, ptr - 255)
        ELSE Word(p.ram, ptr)

C12_IndirectJump ==
    (ins.kind = "instr" /\ OpcodeAt(ins.pre) = 108) => Alive /\ cpu.pc = JmpTarget(ins.pre)

-----------------------------------------------------------------------------
(* C13.  LDA absolute,X (opcode BD) takes 4 ticks when base + X has the    *)
(* high byte of base and 5 ticks when it has not: LDA $00FF,X takes 4      *)
(* ticks with X = 0 and 5 with X = 1.                                      *)

\* the instruction in progress is complete after exactly total ticks
TakesTicks(total) ==
    /\ cpu.cycles = total - ins.ticks
    /\ complete(cpu) <=> ins.ticks = total

\* the 16-bit operand of the instruction at p.pc, and whether adding idx
\* to the address base leaves the page of base
AbsOperand(p) == Word(p.ram, p.pc + 1)
LeavesPage(base, idx) == ((base + idx) % 65536) \div 256 # base \div 256

-----------------------------------------------------------------------------
(* C14.  With ABX, ABY or IZY addressing the operations that only read     *)
(* their operand (ADC, AND, CMP, EOR, LDA, LDX, LDY, ORA, SBC) take base   *)
(* cycles + 1 ticks exactly when the indexed address is on another page    *)
(* than the base, and the stores and read-modify-writes (STA, ASL, LSR,    *)
(* ROL, ROR, INC, DEC) take base cycles either way.                        *)

ReadingOps == {"ADC", "AND", "CMP", "EOR", "LDA", "LDX", "LDY", "ORA", "SBC"}
WritingOps == {"STA", "ASL", "LSR", "ROL", "ROR", "INC", "DEC"}

\* the pointer IZY reads in page zero
ZpPointer(p) ==
    LET t == BusRead(p.ram, p.pc + 1)
    IN  BusRead(p.ram, t) + 256 * BusRead(p.ram, (t + 1) % 256)

\* the instruction at p.pc indexes across a page
CrossesPage(p) ==
    CASE RowAt(p).addr_mode = "ABX" -> LeavesPage(AbsOperand(p), p.x)
      [] RowAt(p).addr_mode = "ABY" -> LeavesPage(AbsOperand(p), p.y)
      [] RowAt(p).addr_mode = "IZY" -> LeavesPage(ZpPointer(p), p.y)
      [] OTHER -> FALSE

Indexed(p) == RowAt(p).addr_mode \in {"ABX", "ABY", "IZY"}

C14_PenaltyByKind ==
    (ins.kind = "instr" /\ Alive /\ Indexed(ins.pre)) =>
        /\ RowAt(ins.pre).operate \in ReadingOps =>
              TakesTicks(RowAt(ins.pre).cycles + (IF CrossesPage(ins.pre) THEN 1 ELSE 0))
        /\ RowAt(ins.pre).operate \in WritingOps => TakesTicks(RowAt(ins.pre).cycles)

-----------------------------------------------------------------------------
(* C15.  An operation that reads an operand (LDA, LDX, LDY, ADC, SBC, AND, *)
(* ORA, EOR, CMP, BIT) with a memory addressing mode uses the byte at      *)
(* addr_abs, the effective address the mode computed, so that LDA $nn      *)
(* loads mem[nn] and LDA $hhll loads mem[hhll]; with IMM it uses the byte  *)
(* that follows the opcode.                                                *)

FetchingOps == {"LDA", "LDX", "LDY", "ADC", "SBC", "AND", "ORA", "EOR", "CMP", "BIT"}
MemoryModes == {"ZP0", "ZPX", "ZPY", "ABS", "ABX", "ABY", "IZX", "IZY"}

\* the instruction in progress reads its operand
Fetching(modes) ==
    /\ ins.kind = "instr" /\ Alive
    /\ RowAt(ins.pre).operate \in FetchingOps
    /\ RowAt(ins.pre).addr_mode \in modes

ImmediateOperand == Fetching({"IMM"}) => cpu.fetched = BusRead(ins.pre.ram, ins.pre.pc + 1)

C15_OperandFetch ==
    /\ ImmediateOperand
    /\ Fetching(MemoryModes) => cpu.fetched = BusRead(ins.pre.ram, cpu.addr_abs)
    /\ (Fetching({"ZP0"}) /\ RowAt(ins.pre).operate = "LDA")
          => cpu.a = BusRead(ins.pre.ram, BusRead(ins.pre.ram, ins.pre.pc + 1))
    /\ (Fetching({"ABS"}) /\ RowAt(ins.pre).operate = "LDA")
          => cpu.a = BusRead(ins.pre.ram, AbsOperand(ins.pre))

-----------------------------------------------------------------------------
(* C16.  ROL of the operand M with carry C gives ((M << 1) OR C) mod 256,  *)
(* the new carry is bit 7 of M, Z and N come from the result, and the      *)
(* result goes to A in accumulator mode and to the operand's location      *)
(* otherwise.                                                              *)

\* the instruction in progress is a ROL; cpu.fetched is the operand it used
Rotating == ins.kind = "instr" /\ Alive /\ RowAt(ins.pre).operate = "ROL"

RolResult == (2 * cpu.fetched + Bit(ins.pre.status, C)) % 256

\* where the instruction in progress left its result
ShiftResult ==
    IF RowAt(ins.pre).addr_mode = "IMP" THEN cpu.a ELSE BusRead(cpu.ram, cpu.addr_abs)

C16_RotateLeft ==
    Rotating =>
        /\ ShiftResult = RolResult
        /\ Bit(cpu.status, C) = Bit(cpu.fetched, 128)
        /\ Flag(cpu, Z) <=> RolResult = 0
        /\ Flag(cpu, N) <=> Bit(RolResult, 128) = 1

-----------------------------------------------------------------------------
(* C17.  For every A and every SP, PHA, then instructions that leave the   *)
(* stack alone, then PLA bring the pushed byte back to A and SP back to    *)
(* its value before the PHA: after LDA #$42; PHA; LDA #$00; PLA, A = 42    *)
(* and SP is what it was.                                                  *)

\* where the program of the run starts, and its k-th byte
Origin == Word(cpu.ram, 65532)
Code(k) == BusRead(cpu.ram, Origin + k)

\* the run is of LDX #sp; TXS; LDA #aa; PHA; LDA #$00; PLA
RunsStack ==
    /\ Code(0) = 162 /\ Code(2) = 154 /\ Code(3) = 169 /\ Code(5) = 72
    /\ Code(6) = 169 /\ Code(8) = 104

\* the run is of LDA #aa; PHA; LDA #$00; PLA
RunsPushPull == Code(0) = 169 /\ Code(2) = 72 /\ Code(3) = 169 /\ Code(5) = 104

\* the instruction k bytes into the program was fetched last
At(k) == ins.kind = "instr" /\ ins.pre.pc = Origin + k

\* PLA has brought back aa and sp
PulledBack(aa, sp) == cpu.a = aa /\ cpu.stkp = sp

C17_PushPull ==
    /\ (RunsStack /\ (At(5) \/ At(6) \/ At(8))) => Alive
    /\ (RunsStack /\ At(8)) => PulledBack(Code(4), Code(1))
    /\ (RunsPushPull /\ (At(2) \/ At(3) \/ At(5))) => Alive
    /\ (RunsPushPull /\ At(5)) => PulledBack(Code(1), 253)

-----------------------------------------------------------------------------
(* C18.  For every address a of a JSR and every target, JSR and then RTS   *)
(* as the first instruction at the target leave PC = a + 3 (mod 2^16) and  *)
(* SP as it was before the JSR; the two bytes JSR pushes are a + 2, high   *)
(* byte first.                                                             *)

\* the run is of LDX #sp; TXS; JSR target, or of LDX #sp; TXS; JMP a with
\* JSR target at a
RunsCall == Code(0) = 162 /\ Code(2) = 154 /\ Code(3) \in {32, 76}

\* the address of the JSR, its target and the SP it finds
JsrAddress == IF Code(3) = 76 THEN Word(cpu.ram, Origin + 4) ELSE Origin + 3
JsrTarget ==
    BusRead(cpu.ram, (JsrAddress + 1) % 65536) + 256 * BusRead(cpu.ram, (JsrAddress + 2) % 65536)
JsrStack == Code(1)

\* the instruction fetched last is the JSR, or the RTS that follows it
AtJsr == RunsCall /\ ins.kind = "instr" /\ ins.pre.pc = JsrAddress
AtRts ==
    /\ RunsCall /\ ins.kind = "instr"
    /\ ins.pre.pc = JsrTarget /\ ins.pre.stkp = (JsrStack - 2) % 256

\* JSR has pushed a + 2, high byte first, and gone to the target
Called ==
    /\ BusRead(cpu.ram, Slot(JsrStack, 0)) = ((JsrAddress + 2) % 65536) \div 256
    /\ BusRead(cpu.ram, Slot(JsrStack, 1)) = ((JsrAddress + 2) % 65536) % 256
    /\ cpu.stkp = (JsrStack - 2) % 256
    /\ cpu.pc = JsrTarget

\* RTS has come back behind the JSR
Returned == cpu.pc = (JsrAddress + 3) % 65536 /\ cpu.stkp = JsrStack

C18_CallReturn ==
    /\ AtJsr => Alive /\ Called
    /\ AtRts => Alive /\ Returned

-----------------------------------------------------------------------------
(* C19.  For every status P, PHP immediately followed by PLP leaves the    *)
(* status register equal to P with B cleared and U set, the flags C, Z, I, *)
(* D, V, N as they were, and SP restored.                                  *)

\* the run is of LDA #pp; PHA; PLP; PHP; PLP
RunsFlags == Code(0) = 169 /\ Code(2) = 72 /\ Code(3) = 40 /\ Code(4) = 8 /\ Code(5) = 40

\* v with the B bit cleared and the U bit set
ClearBSetU(v) == v - Bit(v, B) * B + (1 - Bit(v, U)) * U

\* the status PHP finds is the one the first PLP left: ins.pre is the
\* machine before the second PLP, whose status PHP changed in B and U alone
C19_PushPullStatus ==
    (RunsFlags /\ At(5)) =>
        /\ Alive
        /\ cpu.status = ClearBSetU(Code(1))
        /\ cpu.stkp = 253

\* the flags other than B and U, and SP, do come back
OtherFlagsRestored ==
    (RunsFlags /\ At(5)) =>
        /\ Alive
        /\ \A f \in {C, Z, I, D, V, N} : Bit(cpu.status, f) = Bit(Code(1), f)
        /\ Bit(cpu.status, U) = 1
        /\ cpu.stkp = 253

-----------------------------------------------------------------------------
(* C20.  Every push (PHA, PHP, JSR, BRK, irq, nmi) writes at 0100 + SP and *)
(* then sets SP to (SP - 1) mod 256, so that a push at SP = 00 leaves FF;  *)
(* every pop (PLA, PLP, RTS, RTI) first sets SP to (SP + 1) mod 256, so    *)
(* that a pop at SP = FF reads 0100; no stack access leaves 0100-01FF and  *)
(* none raises an error.                                                   *)

\* the bytes each instruction pushes or pops
Pushes == [PHA |-> 1, PHP |-> 1, JSR |-> 2, BRK |-> 3]
Pops == [PLA |-> 1, PLP |-> 1, RTS |-> 2, RTI |-> 3]

\* from machine p to machine q memory changed in the k slots from SP down
\* at most, and SP went down by k
Pushed(p, q, k) ==
    /\ q.stkp = (p.stkp - k) % 256
    /\ \A addr \in DOMAIN p.ram \cup DOMAIN q.ram :
          BusRead(q.ram, addr) # BusRead(p.ram, addr)
              => \E j \in 0..(k - 1) : addr = Slot(p.stkp, j)

\* from machine p to machine q memory is the same and SP went up by k
Popped(p, q, k) == q.stkp = (p.stkp + k) % 256 /\ q.ram = p.ram

C20_StackWraps ==
    /\ (ins.kind = "instr" /\ RowAt(ins.pre).operate \in DOMAIN Pushes) =>
          Alive /\ Pushed(ins.pre, cpu, Pushes[RowAt(ins.pre).operate])
    /\ (ins.kind = "instr" /\ RowAt(ins.pre).operate \in DOMAIN Pops) =>
          Alive /\ Popped(ins.pre, cpu, Pops[RowAt(ins.pre).operate])
    /\ (ins.kind = "instr" /\ RowAt(ins.pre).operate = "PHA") =>
          BusRead(cpu.ram, Slot(ins.pre.stkp, 0)) = ins.pre.a
    /\ (ins.kind = "instr" /\ RowAt(ins.pre).operate = "PLA") =>
          cpu.a = BusRead(cpu.ram, Slot(ins.pre.stkp, -1))
    /\ (last.op = "nmi" \/ (last.op = "irq" /\ Bit(last.pre.status, I) = 0)) =>
          Alive /\ Pushed(last.pre, cpu, 3)

-----------------------------------------------------------------------------
(* C21.  BRK sets I, pushes PC high byte then low byte, then a status byte *)
(* with B = 1, I = 1 and U = 1, and ends with SP decreased by 3, B cleared *)
(* in the live status register, I set and PC = mem[FFFE] | mem[FFFF] << 8; *)
(* it takes 7 ticks.                                                       *)

\* the pc BRK pushes: past the opcode, the byte the immediate mode skips
\* and BRK's own increment
BrkPushedPc(p) == (p.pc + 3) % 65536

\* the status byte BRK pushes from machine p: p's flags with U, I and B set
BrkPushedStatus(p) == BitOr(p.status, U + I + B)

\* BRK has taken machine p to machine q
Broken(p, q) ==
    /\ BusRead(q.ram, Slot(p.stkp, 0)) = BrkPushedPc(p) \div 256
    /\ BusRead(q.ram, Slot(p.stkp, 1)) = BrkPushedPc(p) % 256
    /\ BusRead(q.ram, Slot(p.stkp, 2)) = BrkPushedStatus(p)
    /\ \A k \in DOMAIN p.ram \cup DOMAIN q.ram :
          k \notin {Slot(p.stkp, 0), Slot(p.stkp, 1), Slot(p.stkp, 2)}
              => BusRead(q.ram, k) = BusRead(p.ram, k)
    /\ q.stkp = (p.stkp - 3) % 256
    /\ Bit(q.status, B) = 0 /\ Bit(q.status, I) = 1
    /\ q.status = BitOr(p.status, U + I) - B * Bit(BitOr(p.status, U + I), B)
    /\ q.pc = Word(q.ram, 65534)

RunsBreak ==
    /\ Code(0) = 169 /\ Code(2) = 72 /\ Code(3) = 40 /\ Code(4) = 162
    /\ Code(6) = 154 /\ Code(7) = 0 /\ Word(cpu.ram, 65534) = 4660

-----------------------------------------------------------------------------
(* C22.  With A2 03 CA D0 FD 00 at 8000 and the reset vector 8000, the cpu *)
(* retires after reset exactly LDX, DEX, BNE (taken), DEX, BNE (taken),    *)
(* DEX, BNE (not taken), BRK in that order; each taken BNE brings PC back  *)
(* to 8002; when BRK is fetched X = 0 and Z = 1.                           *)

RunsLoop ==
    /\ Origin = 32768
    /\ Code(0) = 162 /\ Code(1) = 3 /\ Code(2) = 202 /\ Code(3) = 208
    /\ Code(4) = 253 /\ Code(5) = 0

LoopOrder == <<"LDX", "DEX", "BNE", "DEX", "BNE", "DEX", "BNE", "BRK">>

\* the place in LoopOrder of the instruction machine p is about to fetch,
\* from its pc and X; 0 when it is none of the eight
LoopStep(p) ==
    CASE p.pc = 32768 -> 1
      [] p.pc = 32770 /\ p.x \in 1..3 -> 2 + 2 * (3 - p.x)
      [] p.pc = 32771 /\ p.x \in 0..2 -> 3 + 2 * (2 - p.x)
      [] p.pc = 32773 /\ p.x = 0 -> 8
      [] OTHER -> 0

\* the tick about to be taken fetches an instruction
Fetches == cpu.cycles = 0 /\ last'.op = "clock" /\ ins'.pre = cpu

\* the place in LoopOrder of the instruction before the one being fetched
LoopBefore == IF ins.kind = "reset" THEN 0 ELSE LoopStep(ins.pre)

\* every fetch up to the BRK is of the next instruction of LoopOrder, and
\* the instruction is carried out
LoopInOrder ==
    (RunsLoop /\ Fetches /\ (ins.kind = "reset" \/ LoopStep(ins.pre) \in 1..7)) =>
        /\ LoopStep(cpu) = LoopBefore + 1
        /\ RowAt(cpu).operate = LoopOrder[LoopBefore + 1]
        /\ cpu'.panic = "none"

\* a BNE that found Z = 0 has put PC at 8002, and BRK was fetched with
\* X = 0 and Z = 1
LoopBack ==
    /\ (RunsLoop /\ ins.kind = "instr" /\ LoopStep(ins.pre) \in {3, 5}) =>
          Alive /\ cpu.pc = 32770
    /\ (RunsLoop /\ ins.kind = "instr" /\ ins.pre.pc = 32773) =>
          ins.pre.x = 0 /\ Bit(ins.pre.status, Z) = 1

C22_Loop == [][LoopInOrder]_vars /\ []LoopBack

-----------------------------------------------------------------------------
(* C23.  With A9 05 8D 00 02 69 03 at 8000 and the reset vector 8000,      *)
(* after reset and three completed instructions A = 08, mem[0200] = 05,    *)
(* C = Z = V = N = 0 and PC = 8007; STA writes A to its effective address  *)
(* and changes no other byte of memory.                                    *)

RunsLoadStoreAdd ==
    /\ Origin = 32768
    /\ Code(0) = 169 /\ Code(1) = 5 /\ Code(2) = 141 /\ Code(3) = 0
    /\ Code(4) = 2 /\ Code(5) = 105 /\ Code(6) = 3

\* the third instruction, ADC #$03 at 8005, has been carried out
ThirdDone == RunsLoadStoreAdd /\ At(5)

\* STA abs has taken machine p to machine q
Stored(p, q) ==
    /\ BusRead(q.ram, AbsOperand(p)) = p.a
    /\ \A k \in DOMAIN p.ram \cup DOMAIN q.ram :
          k # AbsOperand(p) => BusRead(q.ram, k) = BusRead(p.ram, k)

C23_LoadStoreAdd ==
    /\ ThirdDone =>
          /\ Alive
          /\ cpu.a = 8 /\ BusRead(cpu.ram, 512) = 5
          /\ Bit(cpu.status, C) = 0 /\ Bit(cpu.status, Z) = 0
          /\ Bit(cpu.status, V) = 0 /\ Bit(cpu.status, N) = 0
          /\ cpu.pc = 32775
    /\ (RunsLoadStoreAdd /\ At(2)) => Alive /\ Stored(ins.pre, cpu)
    /\ Running(141) => Stored(ins.pre, cpu)

\* ADC #$03 is complete: the three instructions took 2 + 4 + 2 ticks
C23_Witness ==
    /\ ThirdDone /\ Alive /\ complete(cpu)
    /\ cpu.a = 8 /\ BusRead(cpu.ram, 512) = 5 /\ cpu.pc = 32775

-----------------------------------------------------------------------------
(* C24.  disassemble(start, stop) changes no register, flag, scratch       *)
(* field, cycle counter or memory byte of the cpu, whatever the memory     *)
(* and whatever start and stop.                                            *)

\* a call of disassemble is in progress or was the host's last call
Listing == last.op = "disassemble"

\* the machine is the one the call found (a panic of the call apart)
Untouched == [cpu EXCEPT !.panic = last.pre.panic] = last.pre

C24_ListingReadsOnly == Listing => Untouched

\* a scan of FFF5.. has returned from JMP $1234 at FFFB on a machine that
\* was reset and ticked before the call
C24_Witness ==
    /\ Listing /\ scan.at = "returned"
    /\ BusRead(cpu.ram, 65531) = 76 /\ scan.start = 65525 /\ scan.line_addr = 65531
    /\ cpu.stkp = 253 /\ cpu.clock_count = 2

-----------------------------------------------------------------------------
(* C25.  disassemble(start, stop) scans the requested range only: the      *)
(* first key of the map it returns is start, and every key lies in         *)
(* start..stop.                                                            *)

\* the smallest key of a map that has one
FirstKey(keys) == CHOOSE k \in keys : \A j \in keys : k <= j

\* what holds of the keys of a map returned for start..stop
InRange(keys, start, stop) ==
    /\ keys # {}
    /\ FirstKey(keys) = start
    /\ \A k \in keys : start <= k /\ k <= stop

C25_ListingInRange ==
    scan.at = "returned" => InRange(scan.map_lines, scan.start, scan.stop)

-----------------------------------------------------------------------------
(* C26.  disassemble terminates without error for every memory image and   *)
(* every start address, those included where the scan steps over FFFE (a   *)
(* zero memory scanned from an odd address) or reaches FFFF.               *)

\* the scan is as far as it is followed
Followed == scan.at = "scanning" /\ Cardinality(scan.map_lines) = ListLines

C26_Terminates == (scan.at = "scanning") ~> (scan.at = "returned" \/ Followed)

-----------------------------------------------------------------------------
(* C27.  The D flag does not influence arithmetic: from two machines that  *)
(* differ in the D bit only, the same ADC or SBC on the same operand gives *)
(* the same A and the same C, Z, V, N, and the two machines still differ   *)
(* in D only; only SED and CLD change D.                                   *)

\* machine p with the D bit the other way
OtherD(p) == [p EXCEPT !.status = BitXor(p.status, D)]

\* what the fetch tick of the instruction in progress makes of the machine
\* that differs in D from the one it found
Twin == clock(OtherD(ins.pre))

\* the fetch tick of an instruction with one of the operations ops is done
Did(ops) ==
    /\ ins.kind = "instr" /\ ins.ticks = 1 /\ Alive
    /\ RowAt(ins.pre).operate \in ops

\* D is as the instruction found it, on the machine and on its twin
KeepsD ==
    /\ Bit(cpu.status, D) = Bit(ins.pre.status, D)
    /\ Bit(Twin.status, D) = 1 - Bit(ins.pre.status, D)

Operations == {lookup[k].operate : k \in 1..256}

\* the original statement: no instruction but SED and CLD changes D
C27_OnlySedCld ==
    /\ Did({"ADC", "SBC"}) => OtherD(Twin) = cpu
    /\ Did(Operations \ {"SED", "CLD"}) => KeepsD

\* the operations that load the status register from the stack
PopsStatus == {"PLP", "RTI"}

\* amended: no instruction but SED, CLD, PLP and RTI changes D
C27_DecimalIgnored ==
    /\ Did({"ADC", "SBC"}) => OtherD(Twin) = cpu
    /\ Did(Operations \ ({"SED", "CLD"} \cup PopsStatus)) => KeepsD
    /\ Did({"SED"}) => Bit(cpu.status, D) = 1 /\ Bit(Twin.status, D) = 1
    /\ Did({"CLD"}) => Bit(cpu.status, D) = 0 /\ Bit(Twin.status, D) = 0

\* ADC #$FF on A = 81 with carry: the low digits add up to more than 9
C27_Witness ==
    /\ Did({"ADC"}) /\ cpu.opcode = 105
    /\ ins.pre.a = 129 /\ Operand = 255 /\ Bit(ins.pre.status, C) = 1
    /\ Bit(cpu.status, D) = 0 /\ Bit(Twin.status, D) = 1
    /\ Twin.a = cpu.a

-----------------------------------------------------------------------------
(* C28.  irq() and nmi() take effect at instruction boundaries only: a     *)
(* call made while cycles > 0 changes nothing of the cpu and of memory,    *)
(* and does not overwrite the cycles the instruction in progress has left. *)

\* the host's last call was irq() or nmi() and found cycles > 0
Interrupting == last.op \in {"irq", "nmi"} /\ last.pre.cycles > 0

C28_InterruptsWait == (Interrupting /\ Alive) => cpu = last.pre

-----------------------------------------------------------------------------
(* C29.  Register and address arithmetic wraps silently: INX and INY at FF *)
(* give 00 with Z = 1, DEX and DEY at 00 give FF with N = 1, an indexed    *)
(* address past FFFF wraps modulo 2^16, PC advancing past FFFF wraps to    *)
(* 0000; none of these puts the emulator in an error state.                *)

\* register v of machine q is v of machine p plus by modulo 256, with Z and
\* N set from it
Counted(p, q, v, by) ==
    /\ q[v] = (p[v] + by) % 256
    /\ Bit(q.status, Z) = (IF q[v] = 0 THEN 1 ELSE 0)
    /\ Bit(q.status, N) = q[v] \div 128

\* the instruction in progress has operation op, or one of the modes
DoesOp(op) == ins.kind = "instr" /\ RowAt(ins.pre).operate = op
InMode(modes) == ins.kind = "instr" /\ RowAt(ins.pre).addr_mode \in modes

\* an implied instruction that is not a return
PlainImplied == InMode({"IMP"}) /\ RowAt(ins.pre).operate \notin {"RTS", "RTI"}

C29_WrapsSilently ==
    /\ DoesOp("INX") => Alive /\ Counted(ins.pre, cpu, "x", 1)
    /\ DoesOp("INY") => Alive /\ Counted(ins.pre, cpu, "y", 1)
    /\ DoesOp("DEX") => Alive /\ Counted(ins.pre, cpu, "x", -1)
    /\ DoesOp("DEY") => Alive /\ Counted(ins.pre, cpu, "y", -1)
    /\ InMode({"ABX"}) =>
          Alive /\ cpu.addr_abs = (AbsOperand(ins.pre) + ins.pre.x) % 65536
    /\ InMode({"ABY"}) =>
          Alive /\ cpu.addr_abs = (AbsOperand(ins.pre) + ins.pre.y) % 65536
    /\ PlainImplied => Alive /\ cpu.pc = (ins.pre.pc + 1) % 65536

-----------------------------------------------------------------------------
(* C30.  A tick entered with cycles > 0 changes clock_count (+1) and       *)
(* cycles (-1) and nothing else: A, X, Y, SP, PC, the status register,     *)
(* opcode, addr_abs, addr_rel, fetched, temp and memory are as they were.  *)
(* All effects of an instruction happen on its first tick.                 *)

\* the step is a call of clock() that finds cycles > 0
TicksDown == last' = [op |-> "clock", pre |-> cpu] /\ cpu.cycles > 0

\* machine q is machine p with one more tick counted and one cycle fewer
CountedDown(p, q) == q = [p EXCEPT !.clock_count = @ + 1, !.cycles = @ - 1]

C30_QuietTick == [][TicksDown => CountedDown(cpu, cpu')]_vars

\* the third tick of PHP, after its push on the first
C30_Witness ==
    /\ last.op = "clock" /\ last.pre.cycles = 1 /\ Alive
    /\ ins.kind = "instr" /\ RowAt(ins.pre).operate = "PHP" /\ ins.ticks = 3
    /\ cpu.stkp = (ins.pre.stkp - 1) % 256 /\ cpu.stkp = last.pre.stkp
    /\ complete(cpu)

-----------------------------------------------------------------------------
(* C31.  A taken branch at address a with displacement byte d sets PC to   *)
(* (a + 2 + signext8(d)) mod 2^16, so that d in 80..FF branches backward;  *)
(* a branch whose condition is false sets PC = a + 2 and changes no        *)
(* register, flag or memory.                                               *)

\* machine q has the registers, flags and memory of machine p
SameRegisters(p, q) ==
    /\ q.a = p.a /\ q.x = p.x /\ q.y = p.y /\ q.stkp = p.stkp
    /\ q.status = p.status /\ q.ram = p.ram

\* a branch has taken machine p to machine q
Branched(p, q) ==
    IF BranchHolds(p)
    THEN q.pc = BranchTarget(p)
    ELSE q.pc = (p.pc + 2) % 65536 /\ SameRegisters(p, q)

C31_BranchTarget ==
    (ins.kind = "instr" /\ IsBranch(ins.pre)) => Alive /\ Branched(ins.pre, cpu)

-----------------------------------------------------------------------------
(* C32.  INC and DEC with a memory addressing mode read the byte at the    *)
(* effective address ea, write (old mem[ea] + 1) mod 256 respectively      *)
(* (old mem[ea] - 1) mod 256 back to ea, set Z and N from the written      *)
(* byte, and change no other memory byte and no register.                  *)

\* from machine p to machine q the byte at addr has become byte, Z and N
\* are set from it, and no other byte and no register has changed
Rewritten(p, q, addr, byte) ==
    /\ BusRead(q.ram, addr) = byte
    /\ \A k \in DOMAIN p.ram \cup DOMAIN q.ram :
          k # addr => BusRead(q.ram, k) = BusRead(p.ram, k)
    /\ Bit(q.status, Z) = (IF byte = 0 THEN 1 ELSE 0)
    /\ Bit(q.status, N) = byte \div 128
    /\ q.a = p.a /\ q.x = p.x /\ q.y = p.y /\ q.stkp = p.stkp

\* what INC (by = 1) or DEC (by = -1) should have made of machine p
Stepped(p, q, by) ==
    Rewritten(p, q, q.addr_abs, (BusRead(p.ram, q.addr_abs) + by) % 256)

C32_ReadModifyWrite ==
    /\ (DoesOp("INC") /\ Alive) => Stepped(ins.pre, cpu, 1)
    /\ (DoesOp("DEC") /\ Alive) => Stepped(ins.pre, cpu, -1)

-----------------------------------------------------------------------------
(* C33.  CMP, CPX and CPY: for every register value R (A, X, Y) and every  *)
(* operand M, R < M included, the instruction sets C = (R >= M),           *)
(* Z = (R = M), N = bit 7 of (R - M) mod 256, raises no error, and leaves  *)
(* A, X, Y, V and memory unchanged.                                        *)

\* the register each compare instruction compares
Compares == [CMP |-> "a", CPX |-> "x", CPY |-> "y"]

\* the instruction in progress compares its immediate operand
ComparesImmediate ==
    /\ ins.kind = "instr"
    /\ RowAt(ins.pre).operate \in DOMAIN Compares
    /\ RowAt(ins.pre).addr_mode = "IMM"

\* machine q is machine p after the comparison of r with mm
Compared(p, q, r, mm) ==
    /\ Bit(q.status, C) = (IF r >= mm THEN 1 ELSE 0)
    /\ Bit(q.status, Z) = (IF r = mm THEN 1 ELSE 0)
    /\ Bit(q.status, N) = ((r - mm) % 256) \div 128
    /\ Bit(q.status, V) = Bit(p.status, V)
    /\ q.a = p.a /\ q.x = p.x /\ q.y = p.y /\ q.ram = p.ram

C33_Compare ==
    ComparesImmediate =>
        /\ Alive
        /\ Compared(ins.pre, cpu, ins.pre[Compares[RowAt(ins.pre).operate]], Operand)

\* ---------------------------------------------------------------------
\* C34  return from an interrupt

\* the instruction in progress is the first one after an irq or nmi that
\* was accepted between two instructions
Answering(kinds) ==
    /\ ins.kind = "instr"
    /\ ins.prior.kind \in kinds
    /\ ins.prior.pre.cycles = 0

\* that first instruction is RTI
ReturnsAtOnce(kinds) == Answering(kinds) /\ RowAt(ins.pre).operate = "RTI"

\* C34: an irq or nmi accepted between two instructions with PC = p and
\* SP = s, whose handler starts with RTI, ends with PC = p and SP = s again
\* and with B cleared in the status register
C34_InterruptReturn ==
    (ReturnsAtOnce({"irq", "nmi"}) /\ Alive) =>
        /\ cpu.pc = ins.prior.pre.pc
        /\ cpu.stkp = ins.prior.pre.stkp
        /\ Bit(cpu.status, B) = 0

C34_Witness ==
    /\ ReturnsAtOnce({"nmi"})
    /\ Alive
    /\ overflow_checks
    /\ ins.prior.pre.pc = 32768
    /\ ins.prior.pre.stkp = 253
    /\ Bit(ins.pre.status, B) = 0

\* ---------------------------------------------------------------------
\* C35  the interrupt mask after a return from irq

\* the flags a program can see, all but B and U
SameFlags(p, q) == \A f \in {C, Z, I, D, V, N} : Bit(q.status, f) = Bit(p.status, f)

\* C35: an irq accepted with I = 0 whose handler returns with RTI leaves
\* C, Z, I, D, V and N as the irq found them, I = 0 among them, so that the
\* next irq is accepted
C35_MaskRestored ==
    (ReturnsAtOnce({"irq"}) /\ Alive) =>
        /\ Bit(ins.prior.pre.status, I) = 0
        /\ SameFlags(ins.prior.pre, cpu)
        /\ Bit(cpu.status, I) = 0
        /\ irq(cpu) # cpu

\* ---------------------------------------------------------------------
\* C36  the return address of BRK

\* the word in the two stack slots below sp, high byte in the upper one
PushedWord(q, sp) ==
    BusRead(q.ram, Slot(sp, 0)) * 256 + BusRead(q.ram, Slot(sp, 1))

\* the instruction in progress is an RTI that follows a BRK directly
ReturnsFromBreak ==
    /\ ins.kind = "instr"
    /\ RowAt(ins.pre).operate = "RTI"
    /\ ins.prior.kind = "instr"
    /\ OpcodeAt(ins.prior.pre) = 0

\* C36: BRK at address a pushes a + 2, and an RTI from the handler resumes
\* at a + 2
C36_BreakReturn ==
    /\ (Running(0) /\ Alive) =>
           PushedWord(cpu, ins.pre.stkp) = (ins.pre.pc + 2) % 65536
    /\ (ReturnsFromBreak /\ Alive) => cpu.pc = (ins.prior.pre.pc + 2) % 65536

\* ---------------------------------------------------------------------
\* C37  the opcodes the 6502 leaves undefined

\* the slots of the table named ??? (their operation is XXX or NOP) and
\* the slots whose operation is XXX
Illegal ==
    {k \in 0..255 : \/ lookup[k + 1].operate = "XXX"
                    \/ lookup[k + 1].name = "???" /\ lookup[k + 1].operate = "NOP"}

RunsIllegal == ins.kind = "instr" /\ Alive /\ OpcodeAt(ins.pre) \in Illegal

\* machine q is machine p one byte further on
OnlyAdvanced(p, q) ==
    /\ q.ram = p.ram
    /\ q.a = p.a /\ q.x = p.x /\ q.y = p.y /\ q.stkp = p.stkp
    /\ \A f \in {C, Z, I, D, B, V, N} : Bit(q.status, f) = Bit(p.status, f)
    /\ q.pc = p.pc + 1

\* C37: an undefined opcode changes no memory byte, no register and no
\* flag, moves PC on by 1 and takes the cycle count of its table slot
C37_IllegalNoOp ==
    RunsIllegal => /\ OnlyAdvanced(ins.pre, cpu)
                   /\ TakesTicks(RowAt(ins.pre).cycles)

\* opcode 1C is complete after its 4th tick
C37_Witness ==
    /\ RunsIllegal /\ OpcodeAt(ins.pre) = 28
    /\ ins.pre.pc = 32768
    /\ ins.ticks = 4 /\ complete(cpu)

\* ---------------------------------------------------------------------
\* C38  zero-page indexing stays in page zero

\* the 16-bit pointer whose two bytes are in page zero at zp and zp + 1,
\* the second one at 0000 when zp is 00FF
ZeroPagePointer(ram, zp) ==
    BusRead(ram, zp % 256) + 256 * BusRead(ram, (zp + 1) % 256)

\* C38: ZPX and ZPY give (operand + index) mod 256 for every operand and
\* index without an error; IZX and IZY take both bytes of their pointer
\* from page zero
C38_ZeroPageWraps ==
    /\ InMode({"ZPX"}) =>
           /\ cpu.panic # "ZPX: read(pc) + x"
           /\ Alive => cpu.addr_abs = (Operand + ins.pre.x) % 256
    /\ InMode({"ZPY"}) =>
           /\ cpu.panic # "ZPY: read(pc) + y"
           /\ Alive => cpu.addr_abs = (Operand + ins.pre.y) % 256
    /\ (InMode({"IZX"}) /\ Alive) =>
           cpu.addr_abs = ZeroPagePointer(ins.pre.ram, Operand + ins.pre.x)
    /\ (InMode({"IZY"}) /\ Alive) =>
           cpu.addr_abs = (ZeroPagePointer(ins.pre.ram, Operand) + ins.pre.y) % 65536

\* ---------------------------------------------------------------------
\* C39  the keys of the map disassemble returns

\* the bytes of the instruction at address k: the opcode and its operand
LineLength(ram, k) == 1 + OperandBytes(lookup[BusRead(ram, k) + 1].addr_mode)

\* each key but the largest is followed by the key behind its instruction
KeysChained(ram, keys) ==
    \A k \in keys :
        (\E j \in keys : j > k) =>
            /\ k + LineLength(ram, k) \in keys
            /\ \A j \in keys : ~(k < j /\ j < k + LineLength(ram, k))

\* C39: the map returned has a key for every instruction the scan decoded,
\* the last one included, and consecutive keys are one instruction apart
C39_ListingComplete ==
    scan.at = "returned" =>
        /\ scan.start \in scan.map_lines
        /\ scan.line_addr \in scan.map_lines
        /\ KeysChained(cpu.ram, scan.map_lines)

-----------------------------------------------------------------------------
(* The driver: main's program at 8000 run from its reset, one call of      *)
(* clock after another, as the event loop makes them while the space bar   *)
(* is pressed.  In a build without overflow checks the run is 2335 ticks   *)
(* long up to the first NOP.                                               *)

MainTicks == 2340

InitMain ==
    /\ overflow_checks \in BOOLEAN
    /\ cpu = reset(NewCpu(ProgMain))
    /\ last = [op |-> "reset", pre |-> cpu]
    /\ ins = [kind |-> "reset", pre |-> cpu, ticks |-> 0, prior |-> NoPeriod]
    /\ signals = 0
    /\ scan = NoScan

MainClock == Tick(MainTicks)

NextMain == MainClock

SpecMain == InitMain /\ [][NextMain]_vars

\* ---------------------------------------------------------------------
\* C40  the result of the driver program

\* the machine is about to fetch the NOP at 8019
AtNop == Alive /\ cpu.pc = 32793 /\ cpu.cycles = 0

\* the turns the loop has taken when the NOP is reached: the reset and the
\* instructions outside the loop take 31 ticks with the last BNE, a turn 9
LoopRuns == (cpu.clock_count - 31) \div 9

\* C40: run from reset, main's program comes to the NOP at 8019 (nothing
\* stops it on the way there, which is 121 ticks long) with 0A at 0000, 03
\* at 0001 and 1E at 0002, after 10 turns of its loop
C40_DriverResult ==
    /\ cpu.clock_count <= 121 => Alive
    /\ cpu.clock_count = 121 => AtNop
    /\ AtNop => /\ BusRead(cpu.ram, 0) = 10
                /\ BusRead(cpu.ram, 1) = 3
                /\ BusRead(cpu.ram, 2) = 30
                /\ LoopRuns = 10

====
